---- MODULE Spec2Model ----
(***************************************************************************)
(* audiobook-dl-web: the download manager (app/download_manager.py) and    *)
(* the output processor (app/output_processor.py) as a state machine.      *)
(*                                                                         *)
(* The event loop is single-threaded and cooperative: a coroutine runs     *)
(* from one await to the next without interruption.  The model splits the  *)
(* code between two awaits into several steps (so that every assignment    *)
(* to a task's status is a transition of its own) and keeps the loop       *)
(* "busy" meanwhile: while a coroutine is at a position of SyncPcs no      *)
(* other coroutine and no caller-invoked operation takes a step.           *)
(***************************************************************************)
EXTENDS Integers, Sequences, FiniteSets, TLC

\* ------------------------------------------------------------------ bounds
NumTasks == 2          \* task ids that may be submitted
MaxLines == 2          \* lines captured per task, both streams together
MaxConfigured == 2     \* largest max_concurrent_downloads written in the config file
MaxClock == 3          \* the clock stops advancing at this reading

\* ------------------------------------------------------- program constants
DefaultMaxConcurrent == 2
MinConcurrent == 1
MaxConcurrent == 10
FirstSuffix == 2
SuffixCap == 10000
FailedProgress == 0
CompletedProgress == 100

\* ------------------------------------------------------------- optionals
\* Python's None is the empty sequence, a value x is <<x>>.
None == <<>>
Some(x) == <<x>>
IsSet(o) == o # <<>>
Val(o) == o[1]

Ids == 1..NumTasks

REMOVABLE_STATUSES == {"completed", "failed", "cancelled"}
DownloadStatus == {"pending", "downloading", "completed", "failed", "cancelled"}

\* ------------------------------------------------------------------ paths
\* A file name is its stem, the numeric suffixes " (i)" appended to the stem
\* so far, and its extension: "out (2).m4b" is stem "out", sfx <<2>>, ext
\* ".m4b".  A staging directory "__task_<id>__" carries the task id.
\* A path is the sequence of names below the downloads directory; a path
\* string is absolute (abs) or relative to the downloads directory.
Nm(stem, ext) == [stem |-> stem, task |-> 0, sfx |-> <<>>, ext |-> ext]
StagingName(t) == [stem |-> "__task__", task |-> t, sfx |-> <<>>, ext |-> ""]
StagingDir(t) == <<StagingName(t)>>
AbsPath(parts) == [abs |-> TRUE, parts |-> parts, toolong |-> FALSE]
RelPath(parts) == [abs |-> FALSE, parts |-> parts, toolong |-> FALSE]

IsPrefix(p, q) == Len(p) <= Len(q) /\ SubSeq(q, 1, Len(p)) = p
Last(p) == p[Len(p)]
Parent(p) == SubSeq(p, 1, Len(p) - 1)
Tail2(p, n) == SubSeq(p, n + 1, Len(p))

AUDIO_EXTENSIONS == {".m4b", ".mp3", ".m4a"}

\* ------------------------------------------------------------- filesystem
\* The tree below the downloads directory: a set of entries, one per path.
\* mtime is the modification time, by the task whose subprocess wrote the
\* entry (0: it was there before any task).
Entry(path, kind, mtime, by) == [path |-> path, kind |-> kind, mtime |-> mtime, by |-> by]
Exists(f, p) == p = <<>> \/ \E e \in f : e.path = p
IsDir(f, p) == p = <<>> \/ \E e \in f : e.path = p /\ e.kind = "dir"
IsFile(f, p) == \E e \in f : e.path = p /\ e.kind = "file"
\* Path.iterdir: the top-level entries of a directory
IterDir(f, p) == {e.path : e \in {x \in f : Len(x.path) = Len(p) + 1 /\ IsPrefix(p, x.path)}}
\* Path.mkdir(parents=True, exist_ok=True) of a path directly below the root
Mkdir(f, p, t, by) == IF Exists(f, p) THEN f ELSE f \cup {Entry(p, "dir", t, by)}
\* shutil.rmtree(p, ignore_errors=True)
Rmtree(f, p) == {e \in f : ~IsPrefix(p, e.path)}
\* os.rename(src, dst): the subtree at src becomes the subtree at dst; a file
\* that was at dst is replaced.
RenameTree(f, src, dst) ==
    {IF IsPrefix(src, e.path) THEN [e EXCEPT !.path = dst \o Tail2(e.path, Len(src))] ELSE e
        : e \in {x \in f : x.path # dst}}
\* shutil.move(src, dst): into dst when dst is a directory (an error when the
\* name is taken there), else a rename onto dst; renaming a directory onto
\* an existing file fails, and so does the copy it falls back to.
ShutilMove(f, src, dst) ==
    LET real_dst == IF IsDir(f, dst) THEN dst \o <<Last(src)>> ELSE dst
    IN  IF IsDir(f, dst) /\ Exists(f, real_dst) THEN [fs |-> f, raised |-> TRUE]
        ELSE IF IsDir(f, src) /\ IsFile(f, real_dst) THEN [fs |-> f, raised |-> TRUE]
        ELSE [fs |-> RenameTree(f, src, real_dst), raised |-> FALSE]

\* f"{stem} ({i}){suffix}" and f"{stem} (copy){suffix}": the copy marker is
\* the suffix 0, which no numeric suffix of the search is.
WithSuffix(p, i) == Parent(p) \o <<[Last(p) EXCEPT !.sfx = Append(@, i)]>>
CopyName(p) == WithSuffix(p, 0)

\* DownloadManager._unique_destination: dest when it is free, else the first
\* free "stem (i)suffix" for i in range(2, 10_000), else "stem (copy)suffix".
\* The first free i, when there is one, is at most the number of taken
\* candidates plus FirstSuffix, so the search set is cut there.
SetMin(S) == CHOOSE x \in S : \A y \in S : x <= y
TakenSuffixes(f, dest) ==
    {Last(Last(q).sfx) : q \in {x \in IterDir(f, Parent(dest)) :
        /\ Len(Last(x).sfx) = Len(Last(dest).sfx) + 1
        /\ x = WithSuffix(dest, Last(Last(x).sfx))}}
UniqueDestinationCut(f, dest) ==
    LET taken == TakenSuffixes(f, dest)
        top == IF Cardinality(taken) + FirstSuffix < SuffixCap - 1
               THEN Cardinality(taken) + FirstSuffix ELSE SuffixCap - 1
        free == {i \in FirstSuffix..top : i \notin taken}
    IN  IF free = {} THEN CopyName(dest) ELSE WithSuffix(dest, SetMin(free))
_unique_destination(f, dest) ==
    IF ~Exists(f, dest) THEN dest ELSE UniqueDestinationCut(f, dest)

\* ------------------------------------------------------- output processor
\* A captured line is what the code reads off it: its text and the first
\* 100 characters of it (head), the keywords it contains (lower-cased), the
\* number of its first NN% (pct), the paths that follow a SAVE_KEYWORDS cue
\* and end in an audio extension (cands), the bare audio paths the fallback
\* patterns match (bare), whether it begins with "WARNING:" and the
\* stripped fragments after each "ERROR:" marker (frags).
Line(text, words, pct, cands, bare, warning, frags) ==
    [text |-> text, head |-> text, words |-> words, pct |-> pct, cands |-> cands,
     bare |-> bare, warning |-> warning, frags |-> frags]
In(line, w) == w \in line.words

\* make_relative_path: the prefix downloads_dir is cut off
make_relative_path(p) == [p EXCEPT !.abs = FALSE]
\* normalize_path: "\" becomes "/"; the names of the model hold neither
normalize_path(parts) == AbsPath(parts)

\* a classification whose download family adds 5 without the ceiling of 70
ClassifiedNoCeiling(line, current_progress) ==
    IF In(line, "authenticating") \/ In(line, "login")
    THEN [progress |-> 10, message |-> "Authenticating with service..."]
    ELSE IF In(line, "downloading") \/ In(line, "download")
    THEN [progress |-> IF current_progress < 20 THEN 20 ELSE current_progress + 5,
          message |-> "Downloading audiobook files..."]
    ELSE [progress |-> current_progress, message |-> line.head]

\* parse_progress_line(line, current_progress) -> (progress, message)
Classified(line, current_progress) ==
    IF In(line, "authenticating") \/ In(line, "login")
    THEN [progress |-> 10, message |-> "Authenticating with service..."]
    ELSE IF In(line, "downloading") \/ In(line, "download")
    THEN [progress |-> IF current_progress < 20 THEN 20
                       ELSE IF current_progress < 70
                            THEN (IF current_progress + 5 < 70 THEN current_progress + 5 ELSE 70)
                            ELSE current_progress,
          message |-> "Downloading audiobook files..."]
    ELSE IF In(line, "combining") \/ In(line, "merge") \/ In(line, "concat")
    THEN [progress |-> 75, message |-> "Combining audio files..."]
    ELSE IF In(line, "chapter")
    THEN [progress |-> 85, message |-> "Adding chapter information..."]
    ELSE IF In(line, "saving") \/ In(line, "writing")
    THEN [progress |-> 90, message |-> "Saving audiobook..."]
    ELSE IF In(line, "complete") \/ In(line, "finished") \/ In(line, "done")
    THEN [progress |-> 95, message |-> "Finalizing..."]
    ELSE [progress |-> current_progress,
          message |-> IF line.text # "" THEN line.head ELSE "Processing..."]
\* a percentage that only counts when it is above what the keywords give
ParseKeepsHigher(line, current_progress) ==
    LET c == Classified(line, current_progress)
    IN  IF IsSet(line.pct) /\ Val(line.pct) > c.progress
        THEN [c EXCEPT !.progress = Val(line.pct)] ELSE c
parse_progress_line(line, current_progress) ==
    LET c == Classified(line, current_progress)
    IN  IF IsSet(line.pct) THEN [c EXCEPT !.progress = Val(line.pct)] ELSE c

\* find_output_file_in_lines: the candidates, most recent line first; the
\* bare-path fallback of a line only while nothing has been found.
RECURSIVE FoundPaths(_, _, _)
FoundPaths(lines, i, acc) ==
    IF i = 0 THEN acc
    ELSE LET withCues == acc \o lines[i].cands
             withBare == IF withCues = <<>> THEN lines[i].bare ELSE withCues
         IN  FoundPaths(lines, i - 1, withBare)
\* The first candidate that exists, relative to the downloads directory;
\* Path.exists raises OSError on a name the filesystem refuses (too long).
RECURSIVE FirstExisting(_, _, _)
FirstExisting(f, found, i) ==
    IF i > Len(found) THEN [raised |-> FALSE, value |-> None]
    ELSE IF found[i].toolong THEN [raised |-> TRUE, value |-> None]
    ELSE IF Exists(f, found[i].parts)
         THEN [raised |-> FALSE, value |-> Some(make_relative_path(found[i]))]
         ELSE FirstExisting(f, found, i + 1)
MapRelative(ps) == [i \in 1..Len(ps) |-> make_relative_path(ps[i])]
find_output_file_in_lines(output_lines, f) ==
    FirstExisting(f, MapRelative(FoundPaths(output_lines, Len(output_lines), <<>>)), 1)

\* the orders iterdir or os.walk may list a set of entries in
Orders(S) == {o \in [1..Cardinality(S) -> S] : \A i, j \in 1..Cardinality(S) : o[i] = o[j] => i = j}
\* a test that forgets min_mtime
IsLaterNoFloor(mtime, latest_time, min_mtime) == mtime > latest_time
\* line 229: mtime > max(latest_time, min_mtime)
IsLater(mtime, latest_time, min_mtime) ==
    mtime > (IF latest_time >= min_mtime THEN latest_time ELSE min_mtime)
\* lines 216-232: the loop over the audio files in the order os.walk yields
\* them; latest is <<latest_file, latest_time>>, <<None, 0>> at the start
RECURSIVE WalkLatest(_, _, _, _)
WalkLatest(walk, i, latest, min_mtime) ==
    IF i > Len(walk) THEN latest[1]
    ELSE IF IsLater(walk[i].mtime, latest[2], min_mtime)
         THEN WalkLatest(walk, i + 1, <<Some(walk[i].path), walk[i].mtime>>, min_mtime)
         ELSE WalkLatest(walk, i + 1, latest, min_mtime)
\* find_latest_audio_file: every result the walk can give, os.walk's order
\* being the filesystem's.  The walk is below search_dir when it exists and
\* below the downloads directory otherwise.
find_latest_audio_file(f, min_mtime, search_dir) ==
    LET base_search == IF IsSet(search_dir) /\ Exists(f, Val(search_dir))
                       THEN Val(search_dir) ELSE <<>>
        audio == {e \in f : /\ e.kind = "file"
                            /\ IsPrefix(base_search, e.path)
                            /\ Last(e.path).ext \in AUDIO_EXTENSIONS}
    IN  {LET latest_file == WalkLatest(walk, 1, <<None, 0>>, min_mtime)
         IN  IF IsSet(latest_file) THEN Some(normalize_path(Val(latest_file))) ELSE None :
         walk \in Orders(audio)}

\* format_error_messages: the entries joined by newlines.  An entry is
\* <<prefix, body>>: <<"ERROR: ", fragment>> or <<"", line>>.  Captured
\* lines are stripped and not blank.
RECURSIVE FormattedErrors(_, _)
FormattedErrors(stderr_lines, i) ==
    IF i > Len(stderr_lines) THEN <<>>
    ELSE LET line == stderr_lines[i]
             own == IF line.text = "" \/ line.warning THEN <<>>
                    ELSE IF line.frags # <<>>
                         THEN [k \in 1..Len(line.frags) |-> <<"ERROR: ", line.frags[k]>>]
                         ELSE << <<"", line.text>> >>
         IN  own \o FormattedErrors(stderr_lines, i + 1)
\* a report of the first line only, empty when that line is dropped
FormatFirstOnly(stderr_lines) ==
    IF stderr_lines = <<>> THEN << <<"", "Unknown error">> >>
    ELSE FormattedErrors(<<stderr_lines[1]>>, 1)
format_error_messages(stderr_lines) ==
    IF stderr_lines = <<>> THEN << <<"", "Unknown error">> >>
    ELSE LET formatted_errors == FormattedErrors(stderr_lines, 1)
         IN  IF formatted_errors # <<>> THEN formatted_errors ELSE << <<"", "Unknown error">> >>
\* str(e) of an exception whose message is msg
ExceptionText(msg) == << <<"", msg>> >>
\* a text is the empty string when it joins nothing but empty pieces
IsEmptyText(tx) == tx = <<>> \/ (Len(tx) = 1 /\ tx[1][1] = "" /\ tx[1][2] = "")

\* ---------------------------------------------------------- audio metadata
\* What running ffprobe on the output file gives: the tool is missing, exits
\* non-zero, prints nothing, prints text that is not JSON, prints JSON with
\* no "format" key, or prints a format section with tags, a duration in
\* seconds and a size in bytes, each of which may be absent.
ProbeKinds == {"missing", "nonzero", "empty", "unparseable", "noformat", "format"}
TagNames == {"title", "artist", "album_artist", "composer", "PERFORMER", "date", "year"}
Probe(kind, tagged, duration, size) ==
    [kind |-> kind, tags |-> [k \in tagged |-> k], duration |-> duration, size |-> size]
TagSets ==
    {{}, {"title"}, {"album_artist"}, {"artist", "album_artist"},
     {"title", "composer", "date"}, {"PERFORMER", "year"}, TagNames}
Durations == {None, Some(59), Some(3725)}
Sizes == {None, Some(512), Some(1280), Some(1572864)}
Probes ==
    {Probe(kind, {}, Some(3725), Some(1280)) : kind \in ProbeKinds \ {"format"}}
        \cup {Probe("format", tagged, d, sz) :
                 tagged \in TagSets, d \in Durations, sz \in Sizes}
NoTagsProbe == Probe("format", {}, Some(3725), Some(1280))
ProbeOutcomes == {Probe("missing", {}, None, None), NoTagsProbe}
FormatOutcomes == {NoTagsProbe}

\* get_tag_with_fallback: the primary tag when the probe has it, else the
\* secondary one, else None
GetTagNoFallback(tags, primary, secondary) ==
    IF primary \in DOMAIN tags THEN Some(tags[primary]) ELSE None
get_tag_with_fallback(tags, primary, secondary) ==
    IF primary \in DOMAIN tags THEN Some(tags[primary])
    ELSE IF secondary \in DOMAIN tags THEN Some(tags[secondary])
    ELSE None

\* "%.1f" or "%.2f" of size_bytes / unit, as <<whole part, decimals>>: unit
\* is a power of two, so the quotient is exact and rounds half to even
Rounded(size_bytes, unit, scale) ==
    LET q == (size_bytes * scale) \div unit
        r == (size_bytes * scale) % unit
        up == IF 2 * r > unit \/ (2 * r = unit /\ q % 2 = 1) THEN q + 1 ELSE q
    IN  <<up \div scale, up % scale>>

\* format_file_size: the size with its unit, "1.2 KB" as <<1, 2, "KB">>
format_file_size(size_bytes) ==
    IF size_bytes < 1024 THEN <<size_bytes, "B">>
    ELSE IF size_bytes < 1024 * 1024 THEN Rounded(size_bytes, 1024, 10) \o <<"KB">>
    ELSE IF size_bytes < 1024 * 1024 * 1024
         THEN Rounded(size_bytes, 1024 * 1024, 10) \o <<"MB">>
    ELSE Rounded(size_bytes \div 1024, 1024 * 1024, 100) \o <<"GB">>

\* lines 342-346: "{hours}h {minutes}m" as <<hours, "h", minutes, "m">>
FormatDuration(duration_sec) ==
    <<duration_sec \div 3600, "h", (duration_sec % 3600) \div 60, "m">>

\* A value that passes Python's truth test
Truthy(o) == IsSet(o) /\ Val(o) # ""

\* extract_audio_metadata: the fields found in the format section of the
\* probe under their record names, None when ffprobe is missing or fails,
\* when its output has no format section, and when no field is found
extract_audio_metadata(probe) ==
    IF probe.kind # "format" THEN None
    ELSE LET tags == probe.tags
             found ==
                 [title    |-> IF "title" \in DOMAIN tags THEN Some(tags["title"]) ELSE None,
                  author   |-> get_tag_with_fallback(tags, "artist", "album_artist"),
                  narrator |-> get_tag_with_fallback(tags, "composer", "PERFORMER"),
                  year     |-> get_tag_with_fallback(tags, "date", "year"),
                  duration |-> IF IsSet(probe.duration)
                               THEN Some(FormatDuration(Val(probe.duration))) ELSE None,
                  size     |-> IF IsSet(probe.size)
                               THEN Some(format_file_size(Val(probe.size))) ELSE None]
             kept == {f \in DOMAIN found : Truthy(found[f])}
             metadata == [f \in kept |-> Val(found[f])]
         IN  IF kept # {} THEN Some(metadata) ELSE None

\* ------------------------------------------------------ staging reconciler
\* DownloadManager._merge_dir_contents: the children of src_dir, in the order
\* iterdir gives them, each moved into dest_dir under its own name or, when
\* that is taken, under _unique_destination's.  moved maps child to target.
RECURSIVE MergeChildren(_, _, _, _, _)
MergeChildren(f, order, i, dest_dir, moved) ==
    IF i > Len(order) THEN [fs |-> f, moved |-> moved, raised |-> FALSE]
    ELSE LET child == order[i]
             plain == dest_dir \o <<Last(child)>>
             target_child == IF Exists(f, plain) THEN _unique_destination(f, plain) ELSE plain
             mv == ShutilMove(f, child, target_child)
         IN  IF mv.raised THEN [fs |-> mv.fs, moved |-> moved, raised |-> TRUE]
             ELSE MergeChildren(mv.fs, order, i + 1, dest_dir,
                                moved \cup {<<child, target_child>>})
_merge_dir_contents(f, order, dest_dir) == MergeChildren(f, order, 1, dest_dir, {})

\* Path.is_relative_to / relative_to, on an absolute path q below the root
IsRelativeTo(old, q) == old.abs /\ IsPrefix(q, old.parts)
Unwrapped(f, output_file, search_root, raised) ==
    [fs |-> f, output_file |-> output_file, search_root |-> search_root, raised |-> raised]

\* an unwrap of a directory that merges into whatever has the name
UnwrapDirNoFileCheck(f, staging_dir, output_file, entry, target, order) ==
    LET mg == _merge_dir_contents(f, order, target)
    IN  IF ~Exists(f, target)
        THEN Unwrapped(Rmtree(ShutilMove(f, entry, target).fs, staging_dir), output_file,
                       target, FALSE)
        ELSE Unwrapped(Rmtree(mg.fs, staging_dir), output_file, target, mg.raised)

UnwrapDir(f, staging_dir, output_file, entry, target, order) ==
    LET old == output_file
        inside == IsSet(old) /\ IsRelativeTo(Val(old), entry)
        rel == Tail2(Val(old).parts, Len(entry))
    IN  IF ~Exists(f, target)
        THEN LET mv == ShutilMove(f, entry, target)
                 after == Rmtree(mv.fs, staging_dir)
             IN  IF inside
                 THEN Unwrapped(after, Some(normalize_path(target \o rel)), target, FALSE)
                 ELSE Unwrapped(after, output_file, target, FALSE)
        ELSE IF ~IsDir(f, target)
        THEN Unwrapped(f, output_file, staging_dir, FALSE)
        ELSE LET mg == _merge_dir_contents(f, order, target)
                 after == Rmtree(mg.fs, staging_dir)
                 top == entry \o <<rel[1]>>
                 new_top == {m[2] : m \in {x \in mg.moved : x[1] = top}}
             IN  IF mg.raised THEN Unwrapped(mg.fs, output_file, staging_dir, TRUE)
                 ELSE IF inside /\ rel # <<>> /\ new_top # {}
                 THEN Unwrapped(after,
                                Some(normalize_path((CHOOSE x \in new_top : TRUE) \o Tail2(rel, 1))),
                                target, FALSE)
                 ELSE Unwrapped(after, output_file, target, FALSE)

UnwrapFile(f, staging_dir, output_file, entry, target0) ==
    LET target == IF Exists(f, target0) THEN _unique_destination(f, target0) ELSE target0
        mv == ShutilMove(f, entry, target)
        after == Rmtree(mv.fs, staging_dir)
    IN  IF mv.raised THEN Unwrapped(mv.fs, output_file, staging_dir, TRUE)
        ELSE IF IsSet(output_file) /\ Val(output_file) = AbsPath(entry)
        THEN Unwrapped(after, Some(normalize_path(target)), Parent(target), FALSE)
        ELSE Unwrapped(after, output_file, Parent(target), FALSE)

\* an unwrap that takes the first entry whenever there is one
UnwrapFirstEntry(f, staging_dir, output_file, order) ==
    LET entries == IterDir(f, staging_dir)
        entry == CHOOSE x \in entries : TRUE
        target == <<Last(entry)>>
    IN  IF entries = {} THEN Unwrapped(f, output_file, staging_dir, FALSE)
        ELSE IF IsDir(f, entry)
        THEN UnwrapDir(f, staging_dir, output_file, entry, target, order)
        ELSE UnwrapFile(f, staging_dir, output_file, entry, target)

\* DownloadManager._unwrap_staging_dir(staging_dir, output_file); order is the
\* order in which iterdir lists the children of a staged directory.
_unwrap_staging_dir(f, staging_dir, output_file, order) ==
    LET entries == IterDir(f, staging_dir)
        entry == CHOOSE x \in entries : TRUE
        target == <<Last(entry)>>
    IN  IF Cardinality(entries) # 1 THEN Unwrapped(f, output_file, staging_dir, FALSE)
        ELSE IF IsDir(f, entry)
        THEN UnwrapDir(f, staging_dir, output_file, entry, target, order)
        ELSE UnwrapFile(f, staging_dir, output_file, entry, target)

StagedChildren(f, staging_dir) ==
    LET entries == IterDir(f, staging_dir)
    IN  IF Cardinality(entries) = 1 THEN IterDir(f, CHOOSE x \in entries : TRUE) ELSE {}

\* ------------------------------------------------------------------ state
VARIABLES
    tasks,                     \* DownloadManager.tasks: the ids in the registry
    task,                      \* the DownloadTask object of each id
    active_downloads,          \* DownloadManager.active_downloads
    max_concurrent_downloads,  \* DownloadManager.max_concurrent_downloads
    pc,                        \* where the coroutine _download_audiobook of each id is
    stdout_lines,              \* its local stdout_lines
    stderr_lines,              \* its local stderr_lines
    returncode,                \* process.returncode once the subprocess has exited
    exc,                       \* the message of the exception it is handling
    fs,                        \* the tree below downloads_dir
    now,                       \* the clock datetime.now() reads
    returned,                  \* what the last call of a handler returned
    eof,                       \* the streams of its subprocess that have been read to the end
    config,                    \* what audiobook-dl.toml in config_dir holds
    request                    \* the urls field of the last form posted to /api/download

vars == <<tasks, task, active_downloads, max_concurrent_downloads, pc,
          stdout_lines, stderr_lines, returncode, exc, fs, now, returned, eof, config,
          request>>

\* datetime.now() advances by one with every reading, up to MaxClock
Tick(n) == IF n < MaxClock THEN n + 1 ELSE n

\* DownloadTask.__init__
Url(scheme, host, rest) == [scheme |-> scheme, host |-> host, rest |-> rest]
BookUrl == Url("https", "www.storytel.com", "/books/1")
DownloadTask ==
    [url |-> BookUrl, status |-> "pending", progress |-> 0, message |-> "Waiting to start...",
     started_at |-> None, completed_at |-> None, error |-> None,
     output_file |-> None, metadata |-> None, expected_output_dir |-> None]

\* a ceiling that is capped at 10 and has no floor
LoadMaxConcurrentNoFloor(configured) ==
    LET v == IF IsSet(configured) THEN Val(configured) ELSE DefaultMaxConcurrent
    IN  IF v < MaxConcurrent THEN v ELSE MaxConcurrent

\* DownloadManager._load_config: the ceiling read from the configuration
\* (None: the key or the file is absent), clamped to 1..10
LoadMaxConcurrent(configured) ==
    LET v == IF IsSet(configured) THEN Val(configured) ELSE DefaultMaxConcurrent
        capped == IF v < MaxConcurrent THEN v ELSE MaxConcurrent
    IN  IF capped > MinConcurrent THEN capped ELSE MinConcurrent
ConfiguredValues == {None} \cup {Some(n) : n \in 0..MaxConfigured}
\* audiobook-dl.toml: None when there is no file, else the value of each of
\* its top-level keys (None: the key is absent)
ConfigKeys == {"output_template", "database_directory", "skip_downloaded",
               "max_concurrent_downloads", "create_folder", "group_by_author"}
NoKeys == [k \in ConfigKeys |-> None]
ConfigFile(configured) ==
    IF IsSet(configured)
    THEN Some([NoKeys EXCEPT !["max_concurrent_downloads"] = configured]) ELSE None
\* DownloadManager._read_config: the keys of the file, none without a file
_read_config(file) == IF IsSet(file) THEN Val(file) ELSE NoKeys
\* DownloadManager._load_config: the ceiling the manager takes from the file
_load_config(file) == LoadMaxConcurrent(_read_config(file)["max_concurrent_downloads"])

\* Positions between two awaits: the loop is running this coroutine.
SyncPcs == {"admitted", "resolve", "unwrap", "except", "finally"}
Busy == \E t \in Ids : pc[t] \in SyncPcs

\* What the downloader may print for task t, and what it may write.
OutName == Nm("out", ".m4b")
BookName == Nm("Book", "")
AudioName == Nm("audio", ".m4b")
CoverName == Nm("cover", ".jpg")
PartName == Nm("part", ".mp3")
\* What the downloader may print for task t: a progress line, a line that
\* announces the file it wrote, a line that announces a name too long for the
\* filesystem; on stderr an error and a warning.
ProgressLine ==
    Line("Downloading: 42%", {"downloading", "download"}, Some(42), <<>>, <<>>, FALSE, <<>>)
SavedLine(t) ==
    Line("Saved to: <staging>/out.m4b", {}, None,
         <<AbsPath(StagingDir(t) \o <<OutName>>)>>, <<>>, FALSE, <<>>)
SavedBookLine(t) ==
    Line("Saved to: <staging>/Book/audio.m4b", {}, None,
         <<AbsPath(StagingDir(t) \o <<BookName, AudioName>>)>>, <<>>, FALSE, <<>>)
\* a line that names the written file without its directory
SavedNameLine ==
    Line("Saved to: out.m4b", {}, None, <<RelPath(<<OutName>>)>>, <<>>, FALSE, <<>>)
TooLongLine ==
    Line("Saved to: <a name of 300 characters>.mp3", {}, None,
         <<[abs |-> FALSE, parts |-> <<Nm("aaa", ".mp3")>>, toolong |-> TRUE]>>, <<>>,
         FALSE, <<>>)
ErrorLine == Line("ERROR: disk full", {}, None, <<>>, <<>>, FALSE, <<"disk full">>)
WarningLine == Line("WARNING: slow", {}, None, <<>>, <<>>, TRUE, <<>>)
\* a line with a percentage above 100, and a line of the login stage
OverLine == Line("Speed: 250% of realtime", {}, Some(250), <<>>, <<>>, FALSE, <<>>)
LoginLine == Line("Login to next part", {"login"}, None, <<>>, <<>>, FALSE, <<>>)
\* a line of each keyword family of parse_progress_line (three of the
\* download family), a line with keywords of three families, and lines with
\* a percentage: below what the keywords give, and without any keyword
Plain(text, words) == Line(text, words, None, <<>>, <<>>, FALSE, <<>>)
LowLine ==
    Line("Downloading: 5%", {"downloading", "download"}, Some(5), <<>>, <<>>, FALSE, <<>>)
BareLine == Line("68%", {}, Some(68), <<>>, <<>>, FALSE, <<>>)
StageLine(kind) ==
    CASE kind = "auth" -> Plain("Authenticating", {"authenticating"})
      [] kind = "dl1" -> Plain("Downloading part 1", {"downloading", "download"})
      [] kind = "dl2" -> Plain("Downloading part 2", {"downloading", "download"})
      [] kind = "dl3" -> Plain("Downloading part 3", {"downloading", "download"})
      [] kind = "combine" -> Plain("Combining audio", {"combining"})
      [] kind = "chapter" -> Plain("Adding chapters", {"chapter"})
      [] kind = "saving" -> Plain("Saving audiobook", {"saving"})
      [] kind = "done" -> Plain("Done", {"done"})
      [] kind = "mixed" -> Plain("Finished downloading chapter 3",
                                 {"finished", "downloading", "download", "chapter"})
      [] kind = "low" -> LowLine
      [] kind = "bare" -> BareLine
\* the stages a download goes through, in order, and what is printed in any order
Script == <<"auth", "dl1", "dl2", "dl3", "combine", "chapter", "saving", "done">>
StageKinds == {"auth", "dl1", "combine", "chapter", "saving", "done", "mixed",
               "progress", "low", "bare"}
\* the lines stdout may carry, by kind
StdoutKinds == {"progress", "saved", "toolong"}
ProgressKinds == {"progress", "over", "login"}
StdoutLine(t, kind) ==
    CASE kind = "progress" -> ProgressLine
      [] kind = "saved" -> SavedLine(t)
      [] kind = "savedbook" -> SavedBookLine(t)
      [] kind = "savedname" -> SavedNameLine
      [] kind = "toolong" -> TooLongLine
      [] kind = "over" -> OverLine
      [] kind = "login" -> LoginLine
      [] OTHER -> StageLine(kind)
StderrAlphabet == {ErrorLine, WarningLine}
\* more of what stderr may carry: two errors on one line, a warning that
\* quotes an error, a line with neither marker; and a blank line, which
\* read_process_stream never captures but format_error_messages accepts
TwoErrorsLine ==
    Line("ERROR: no space ERROR: aborted", {}, None, <<>>, <<>>, FALSE, <<"no space", "aborted">>)
WarningErrorLine ==
    Line("WARNING: retry after ERROR: timeout", {}, None, <<>>, <<>>, TRUE, <<"timeout">>)
TracebackLine == Plain("Traceback (most recent call last)", {})
BlankLine == Plain("", {})
ErrorAlphabet == {ErrorLine, WarningLine, TwoErrorsLine, WarningErrorLine, TracebackLine}
\* str(e) of what the launch or a stream read may raise (NotImplementedError()
\* of an event loop without subprocess support has the empty message)
ExcMessages == {"", "Connection lost"}
\* what the downloader may leave in its staging directory
Layouts == {"file", "dir", "two"}
Written(t, layout, at) ==
    LET s == StagingDir(t)
    IN  CASE layout = "file" -> {Entry(s \o <<OutName>>, "file", at, t)}
          [] layout = "dir" -> {Entry(s \o <<BookName>>, "dir", at, t),
                                Entry(s \o <<BookName, AudioName>>, "file", at, t)}
          [] layout = "two" -> {Entry(s \o <<OutName>>, "file", at, t),
                                Entry(s \o <<CoverName>>, "file", at, t)}
          [] layout = "early" -> {Entry(s \o <<OutName>>, "file", 1, t)}
          [] layout = "series" -> {Entry(s \o <<OutName>>, "file", 1, t),
                                   Entry(s \o <<BookName>>, "dir", at, t),
                                   Entry(s \o <<BookName, AudioName>>, "file", at, t),
                                   Entry(s \o <<PartName>>, "file", Tick(at), t),
                                   Entry(s \o <<CoverName>>, "file", Tick(at), t)}
          [] layout = "pair" -> {Entry(s \o <<BookName>>, "dir", at, t),
                                 Entry(s \o <<BookName, AudioName>>, "file", at, t),
                                 Entry(s \o <<BookName, CoverName>>, "file", at, t)}

Init ==
    /\ tasks = {}
    /\ task = [t \in Ids |-> DownloadTask]
    /\ active_downloads = 0
    /\ config \in {ConfigFile(c) : c \in ConfiguredValues}
    /\ max_concurrent_downloads = _load_config(config)
    /\ pc = [t \in Ids |-> "idle"]
    /\ stdout_lines = [t \in Ids |-> <<>>]
    /\ stderr_lines = [t \in Ids |-> <<>>]
    /\ returncode = [t \in Ids |-> None]
    /\ exc = [t \in Ids |-> None]
    /\ fs = {}
    /\ now = 1
    /\ returned = None
    /\ eof = [t \in Ids |-> {}]
    /\ request = None

\* DownloadManager.add_download, called by the route with a fresh uuid
add_download(t) ==
    /\ ~Busy
    /\ pc[t] = "idle"
    /\ \A u \in Ids : u < t => pc[u] # "idle"
    /\ tasks' = tasks \cup {t}
    /\ task' = [task EXCEPT ![t] = DownloadTask]
    /\ pc' = [pc EXCEPT ![t] = "gate"]
    /\ UNCHANGED <<request, returned, eof, config, active_downloads,
                   max_concurrent_downloads, stdout_lines, stderr_lines, exc, fs, now,
                   returncode>>

\* line 207: the admission loop is left when this holds
GateOpenOffByOne(active, ceiling) == ~(active > ceiling)
GateOpen(active, ceiling) == ~(active >= ceiling)

\* an admission that tests the ceiling the manager has without a file
AdmitUnderDefaultCeiling(t) ==
    /\ ~Busy
    /\ pc[t] = "gate"
    /\ GateOpen(active_downloads, DefaultMaxConcurrent)
    /\ active_downloads' = active_downloads + 1
    /\ task' = [task EXCEPT ![t].status = "downloading",
                            ![t].started_at = Some(now),
                            ![t].message = "Starting download..."]
    /\ now' = Tick(now)
    /\ pc' = [pc EXCEPT ![t] = "admitted"]
    /\ UNCHANGED <<request, returned, eof, config, tasks, max_concurrent_downloads,
                   stdout_lines, stderr_lines, exc, fs, returncode>>

\* _download_audiobook, lines 206-213: past the gate
Admit(t) ==
    /\ ~Busy
    /\ pc[t] = "gate"
    /\ GateOpen(active_downloads, max_concurrent_downloads)
    /\ active_downloads' = active_downloads + 1
    /\ task' = [task EXCEPT ![t].status = "downloading",
                            ![t].started_at = Some(now),
                            ![t].message = "Starting download..."]
    /\ now' = Tick(now)
    /\ pc' = [pc EXCEPT ![t] = "admitted"]
    /\ UNCHANGED <<request, returned, eof, config, tasks, max_concurrent_downloads,
                   stdout_lines, stderr_lines, exc, fs, returncode>>

\* lines 218-220: the staging directory; mkdir may raise (OSError)
MakeStaging(t) ==
    /\ pc[t] = "admitted"
    /\ \/ /\ fs' = Mkdir(fs, StagingDir(t), now, t)
          /\ task' = [task EXCEPT ![t].expected_output_dir = Some(StagingDir(t))]
          /\ pc' = [pc EXCEPT ![t] = "launch"]
          /\ UNCHANGED exc
       \/ /\ exc' = [exc EXCEPT ![t] = Some("Permission denied")]
          /\ pc' = [pc EXCEPT ![t] = "except"]
          /\ UNCHANGED <<fs, task, returncode>>
    /\ UNCHANGED <<request, returned, eof, config, tasks, active_downloads,
                   max_concurrent_downloads, stdout_lines, stderr_lines, now, returncode>>

\* lines 242-253: await create_subprocess_exec returns, or raises
Launch(t, messages) ==
    /\ ~Busy
    /\ pc[t] = "launch"
    /\ \/ /\ pc' = [pc EXCEPT ![t] = "monitor"]
          /\ UNCHANGED exc
       \/ \E msg \in messages :
            /\ exc' = [exc EXCEPT ![t] = Some(msg)]
            /\ pc' = [pc EXCEPT ![t] = "except"]
    /\ UNCHANGED <<request, returned, eof, config, tasks, task, active_downloads,
                   max_concurrent_downloads, stdout_lines, stderr_lines, fs, now, returncode>>

\* read_process_stream appends a line that differs from the last captured
\* one and calls on_line (lines 260-264)
on_line(t, line) ==
    LET r == parse_progress_line(line, task[t].progress)
    IN  [task EXCEPT ![t].progress = r.progress, ![t].message = r.message]
IsRepeat(lines_list, line) == IF lines_list = <<>> THEN FALSE ELSE Last(lines_list) = line
Captured(t) == Len(stdout_lines[t]) + Len(stderr_lines[t])
ReadStdout(t, kinds) ==
    /\ ~Busy
    /\ pc[t] = "monitor"
    /\ Captured(t) < MaxLines
    /\ "stdout" \notin eof[t]
    /\ \E kind \in kinds :
        LET line == StdoutLine(t, kind)
        IN  /\ ~IsRepeat(stdout_lines[t], line)
            /\ stdout_lines' = [stdout_lines EXCEPT ![t] = Append(@, line)]
            /\ task' = on_line(t, line)
    /\ UNCHANGED <<request, returned, eof, config, tasks, active_downloads,
                   max_concurrent_downloads, pc, stderr_lines, exc, fs, now, returncode>>
ReadStderr(t, alphabet) ==
    /\ ~Busy
    /\ pc[t] = "monitor"
    /\ Captured(t) < MaxLines
    /\ "stderr" \notin eof[t]
    /\ \E line \in alphabet :
        /\ ~IsRepeat(stderr_lines[t], line)
        /\ stderr_lines' = [stderr_lines EXCEPT ![t] = Append(@, line)]
        /\ task' = on_line(t, line)
    /\ UNCHANGED <<request, returned, eof, config, tasks, active_downloads,
                   max_concurrent_downloads, pc, stdout_lines, exc, fs, now, returncode>>

\* read_process_stream on the stdout of a downloader that prints the stages
\* of Script in order, one line each, and nothing else
ScriptLines(t, n) == [i \in 1..n |-> StdoutLine(t, Script[i])]
ReadScript(t) ==
    /\ ~Busy
    /\ pc[t] = "monitor"
    /\ "stdout" \notin eof[t]
    /\ stderr_lines[t] = <<>>
    /\ Len(stdout_lines[t]) < Len(Script)
    /\ stdout_lines[t] = ScriptLines(t, Len(stdout_lines[t]))
    /\ LET line == StdoutLine(t, Script[Len(stdout_lines[t]) + 1])
       IN  /\ ~IsRepeat(stdout_lines[t], line)
           /\ stdout_lines' = [stdout_lines EXCEPT ![t] = Append(@, line)]
           /\ task' = on_line(t, line)
    /\ UNCHANGED <<request, returned, eof, config, tasks, active_downloads,
                   max_concurrent_downloads, pc, stderr_lines, exc, fs, now, returncode>>

\* read_process_stream at the end of a stream whose last line has no
\* terminator (lines 378-386): what is left in the buffer is appended and
\* given to on_line, without the comparison with the last captured line.  A
\* stream that ends on a terminator ends with the exit of the subprocess.
FlushStdout(t, kinds) ==
    /\ ~Busy
    /\ pc[t] = "monitor"
    /\ Captured(t) < MaxLines
    /\ "stdout" \notin eof[t]
    /\ \E kind \in kinds :
        LET line == StdoutLine(t, kind)
        IN  /\ stdout_lines' = [stdout_lines EXCEPT ![t] = Append(@, line)]
            /\ task' = on_line(t, line)
    /\ eof' = [eof EXCEPT ![t] = @ \cup {"stdout"}]
    /\ UNCHANGED <<request, returned, config, tasks, active_downloads,
                   max_concurrent_downloads, pc, stderr_lines, exc, fs, now, returncode>>
FlushStderr(t, alphabet) ==
    /\ ~Busy
    /\ pc[t] = "monitor"
    /\ Captured(t) < MaxLines
    /\ "stderr" \notin eof[t]
    /\ \E line \in alphabet :
        /\ stderr_lines' = [stderr_lines EXCEPT ![t] = Append(@, line)]
        /\ task' = on_line(t, line)
    /\ eof' = [eof EXCEPT ![t] = @ \cup {"stderr"}]
    /\ UNCHANGED <<request, returned, config, tasks, active_downloads,
                   max_concurrent_downloads, pc, stdout_lines, exc, fs, now, returncode>>

\* a stream read raises while the output is monitored (lines 267-273)
MonitorRaises(t, messages) ==
    /\ ~Busy
    /\ pc[t] = "monitor"
    /\ \E msg \in messages : exc' = [exc EXCEPT ![t] = Some(msg)]
    /\ pc' = [pc EXCEPT ![t] = "except"]
    /\ UNCHANGED <<request, returned, eof, config, tasks, task, active_downloads,
                   max_concurrent_downloads, stdout_lines, stderr_lines, fs, now, returncode>>

\* the subprocess writes its output below the -o path, in its staging directory
DownloaderWrites(t, layouts) ==
    /\ ~Busy
    /\ pc[t] = "monitor"
    /\ IterDir(fs, StagingDir(t)) = {}
    /\ \E layout \in layouts : fs' = fs \cup Written(t, layout, now)
    /\ UNCHANGED <<request, returned, eof, config, tasks, task, active_downloads,
                   max_concurrent_downloads, pc, stdout_lines, stderr_lines, exc, now,
                   returncode>>

\* lines 273-279: the subprocess exits with code 0
ExitZero(t) ==
    /\ ~Busy
    /\ pc[t] = "monitor"
    /\ task' = [task EXCEPT ![t].status = "completed",
                            ![t].progress = CompletedProgress,
                            ![t].message = "Download completed successfully!",
                            ![t].completed_at = Some(now)]
    /\ now' = Tick(now)
    /\ returncode' = [returncode EXCEPT ![t] = Some(0)]
    /\ pc' = [pc EXCEPT ![t] = "resolve"]
    /\ UNCHANGED <<request, returned, eof, config, tasks, active_downloads,
                   max_concurrent_downloads, stdout_lines, stderr_lines, exc, fs>>

\* lines 356-374: the subprocess exits with another code
ExitNonZero(t) ==
    /\ ~Busy
    /\ pc[t] = "monitor"
    /\ task' = [task EXCEPT ![t].status = "failed",
                            ![t].progress = FailedProgress,
                            ![t].message = "Download failed",
                            ![t].completed_at = Some(now),
                            ![t].error = Some(format_error_messages(stderr_lines[t]))]
    /\ now' = Tick(now)
    /\ returncode' = [returncode EXCEPT ![t] = Some(1)]
    /\ pc' = [pc EXCEPT ![t] = "finally"]
    /\ UNCHANGED <<request, returned, eof, config, tasks, active_downloads,
                   max_concurrent_downloads, stdout_lines, stderr_lines, exc, fs>>

\* lines 283-329: the output file, from the captured lines or else from the
\* newest audio file below the search root; Path.exists may raise
ResolveOutput(t) ==
    LET search_root == IF IsSet(task[t].expected_output_dir)
                       THEN task[t].expected_output_dir ELSE Some(<<>>)
        r == find_output_file_in_lines(stdout_lines[t] \o stderr_lines[t], fs)
    IN
    /\ pc[t] = "resolve"
    /\ IF r.raised
       THEN /\ exc' = [exc EXCEPT ![t] = Some("File name too long")]
            /\ pc' = [pc EXCEPT ![t] = "except"]
            /\ UNCHANGED task
       ELSE /\ IF ~IsSet(r.value) /\ IsSet(task[t].started_at)
               THEN IF IsFile(fs, Val(search_root))
                    THEN task' = [task EXCEPT ![t].output_file =
                                        Some(normalize_path(Val(search_root)))]
                    ELSE \E found \in find_latest_audio_file(fs, Val(task[t].started_at),
                                                             search_root) :
                            task' = [task EXCEPT ![t].output_file = found]
               ELSE task' = [task EXCEPT ![t].output_file = r.value]
            /\ pc' = [pc EXCEPT ![t] = "unwrap"]
            /\ UNCHANGED exc
    /\ UNCHANGED <<request, returned, eof, config, tasks, active_downloads,
                   max_concurrent_downloads, stdout_lines, stderr_lines, fs, now, returncode>>

\* lines 333-355: the staging directory is unwrapped; what it raises is
\* logged.  Then the metadata probe is awaited when there is an output file.
AfterUnwrap(output_file) == IF IsSet(output_file) THEN "probe" ELSE "finally"
UnwrapStaging(t) ==
    /\ pc[t] = "unwrap"
    /\ IF IsSet(task[t].expected_output_dir) /\ Exists(fs, Val(task[t].expected_output_dir))
       THEN \/ \E order \in Orders(StagedChildren(fs, Val(task[t].expected_output_dir))) :
                LET u == _unwrap_staging_dir(fs, Val(task[t].expected_output_dir),
                                             task[t].output_file, order)
                IN  /\ fs' = u.fs
                    /\ task' = IF u.raised THEN task
                               ELSE [task EXCEPT ![t].output_file = u.output_file]
                    /\ pc' = [pc EXCEPT ![t] = AfterUnwrap(task'[t].output_file)]
            \/ \* iterdir raises before anything is moved
               /\ pc' = [pc EXCEPT ![t] = AfterUnwrap(task[t].output_file)]
               /\ UNCHANGED <<fs, task, returncode>>
       ELSE /\ pc' = [pc EXCEPT ![t] = AfterUnwrap(task[t].output_file)]
            /\ UNCHANGED <<fs, task, returncode>>
    /\ UNCHANGED <<request, returned, eof, config, tasks, active_downloads,
                   max_concurrent_downloads, stdout_lines, stderr_lines, exc, now,
                   returncode>>

\* line 344: await extract_audio_metadata returns
ProbeMetadata(t, outcomes) ==
    /\ ~Busy
    /\ pc[t] = "probe"
    /\ \E outcome \in outcomes :
         task' = [task EXCEPT ![t].metadata = extract_audio_metadata(outcome)]
    /\ pc' = [pc EXCEPT ![t] = "finally"]
    /\ UNCHANGED <<request, returned, eof, config, tasks, active_downloads,
                   max_concurrent_downloads, stdout_lines, stderr_lines, exc, fs, now,
                   returncode>>

\* an except clause that goes back to launching the subprocess
HandleExceptionRetries(t) ==
    /\ pc[t] = "except"
    /\ task' = [task EXCEPT ![t].status = "failed",
                            ![t].message = "Download failed with exception",
                            ![t].error = Some(ExceptionText(Val(exc[t]))),
                            ![t].completed_at = Some(now)]
    /\ now' = Tick(now)
    /\ pc' = [pc EXCEPT ![t] = "launch"]
    /\ UNCHANGED <<request, returned, eof, config, tasks, active_downloads,
                   max_concurrent_downloads, stdout_lines, stderr_lines, exc, fs, returncode>>
\* lines 376-380: except Exception as e
HandleException(t) ==
    /\ pc[t] = "except"
    /\ task' = [task EXCEPT ![t].status = "failed",
                            ![t].message = "Download failed with exception",
                            ![t].error = Some(ExceptionText(Val(exc[t]))),
                            ![t].completed_at = Some(now)]
    /\ now' = Tick(now)
    /\ pc' = [pc EXCEPT ![t] = "finally"]
    /\ UNCHANGED <<request, returned, eof, config, tasks, active_downloads,
                   max_concurrent_downloads, stdout_lines, stderr_lines, exc, fs, returncode>>

\* a finally block that gives the slot back only when nothing was raised
FinallySkipsAfterException(t) ==
    /\ pc[t] = "finally"
    /\ active_downloads' = IF exc[t] = None THEN active_downloads - 1 ELSE active_downloads
    /\ pc' = [pc EXCEPT ![t] = "done"]
    /\ stdout_lines' = [stdout_lines EXCEPT ![t] = <<>>]
    /\ stderr_lines' = [stderr_lines EXCEPT ![t] = <<>>]
    /\ exc' = [exc EXCEPT ![t] = None]
    /\ returncode' = [returncode EXCEPT ![t] = None]
    /\ task' = IF t \in tasks THEN task ELSE [task EXCEPT ![t] = DownloadTask]
    /\ UNCHANGED <<request, returned, eof, config, tasks, max_concurrent_downloads, fs, now>>

\* a finally block that does not give the slot back
FinallyLeaksSlot(t) ==
    /\ pc[t] = "finally"
    /\ pc' = [pc EXCEPT ![t] = "done"]
    /\ stdout_lines' = [stdout_lines EXCEPT ![t] = <<>>]
    /\ stderr_lines' = [stderr_lines EXCEPT ![t] = <<>>]
    /\ exc' = [exc EXCEPT ![t] = None]
    /\ returncode' = [returncode EXCEPT ![t] = None]
    /\ task' = IF t \in tasks THEN task ELSE [task EXCEPT ![t] = DownloadTask]
    /\ UNCHANGED <<request, returned, eof, config, tasks, active_downloads,
                   max_concurrent_downloads, fs, now>>

\* lines 386-387: finally; the coroutine ends and its locals with it, and so
\* does the task object when the registry no longer holds it
Finally(t) ==
    /\ pc[t] = "finally"
    /\ active_downloads' = active_downloads - 1
    /\ pc' = [pc EXCEPT ![t] = "done"]
    /\ stdout_lines' = [stdout_lines EXCEPT ![t] = <<>>]
    /\ stderr_lines' = [stderr_lines EXCEPT ![t] = <<>>]
    /\ exc' = [exc EXCEPT ![t] = None]
    /\ returncode' = [returncode EXCEPT ![t] = None]
    /\ task' = IF t \in tasks THEN task ELSE [task EXCEPT ![t] = DownloadTask]
    /\ UNCHANGED <<request, returned, eof, config, tasks, max_concurrent_downloads, fs, now>>

\* a cancel_task that does not look at the status
CancelTaskAnyStatus(t) ==
    /\ ~Busy
    /\ IF t \in tasks
       THEN /\ task' = [task EXCEPT ![t].status = "cancelled",
                                    ![t].message = "Download cancelled by user",
                                    ![t].completed_at = Some(now)]
            /\ now' = Tick(now)
            /\ returned' = Some(TRUE)
       ELSE /\ returned' = Some(FALSE)
            /\ UNCHANGED <<task, now>>
    /\ UNCHANGED <<request, eof, config, tasks, active_downloads, max_concurrent_downloads,
                   pc, stdout_lines, stderr_lines, exc, fs, returncode>>

\* DownloadManager.cancel_task(task_id)
cancel_task(t) ==
    /\ ~Busy
    /\ IF t \in tasks /\ task[t].status \in {"pending", "downloading"}
       THEN /\ task' = [task EXCEPT ![t].status = "cancelled",
                                    ![t].message = "Download cancelled by user",
                                    ![t].completed_at = Some(now)]
            /\ now' = Tick(now)
            /\ returned' = Some(TRUE)
       ELSE /\ returned' = Some(FALSE)
            /\ UNCHANGED <<task, now>>
    /\ UNCHANGED <<request, eof, config, tasks, active_downloads, max_concurrent_downloads,
                   pc, stdout_lines, stderr_lines, exc, fs, returncode>>

\* del self.tasks[task_id]: the registry lets go of the objects of the ids in
\* gone; an object lives on while its coroutine holds it
Forgotten(gone) ==
    [t \in Ids |-> IF t \in gone /\ pc[t] = "done" THEN DownloadTask ELSE task[t]]

\* a remove_task that does not look at the status
RemoveTaskAnyStatus(t) ==
    /\ ~Busy
    /\ IF t \in tasks
       THEN /\ tasks' = tasks \ {t}
            /\ task' = Forgotten({t})
            /\ returned' = Some(TRUE)
       ELSE /\ returned' = Some(FALSE)
            /\ UNCHANGED <<tasks, task>>
    /\ UNCHANGED <<request, eof, config, active_downloads, max_concurrent_downloads, pc,
                   stdout_lines, stderr_lines, exc, fs, now, returncode>>

\* DownloadManager.remove_task(task_id)
remove_task(t) ==
    /\ ~Busy
    /\ IF t \in tasks /\ task[t].status \in REMOVABLE_STATUSES
       THEN /\ tasks' = tasks \ {t}
            /\ task' = Forgotten({t})
            /\ returned' = Some(TRUE)
       ELSE /\ returned' = Some(FALSE)
            /\ UNCHANGED <<tasks, task>>
    /\ UNCHANGED <<request, eof, config, active_downloads, max_concurrent_downloads, pc,
                   stdout_lines, stderr_lines, exc, fs, now, returncode>>

\* a clear_completed that empties the registry
ClearAll ==
    /\ ~Busy
    /\ tasks' = {}
    /\ task' = Forgotten(tasks)
    /\ returned' = None
    /\ UNCHANGED <<request, eof, config, active_downloads, max_concurrent_downloads, pc,
                   stdout_lines, stderr_lines, exc, fs, now, returncode>>

\* DownloadManager.clear_completed()
clear_completed ==
    LET to_remove == {t \in tasks : task[t].status \in REMOVABLE_STATUSES}
    IN  /\ ~Busy
        /\ tasks' = tasks \ to_remove
        /\ task' = Forgotten(to_remove)
        /\ returned' = None
        /\ UNCHANGED <<request, eof, config, active_downloads, max_concurrent_downloads, pc,
                       stdout_lines, stderr_lines, exc, fs, now, returncode>>

\* One task; its downloader prints the stages in order, or up to MaxLines
\* lines of StageKinds in any order, and exits with code 0.
NextStages ==
    \/ add_download(1)
    \/ \E t \in Ids : Admit(t)
    \/ \E t \in Ids : MakeStaging(t)
    \/ \E t \in Ids : Launch(t, {"Connection lost"})
    \/ \E t \in Ids : ReadScript(t)
    \/ \E t \in Ids : ReadStdout(t, StageKinds)
    \/ \E t \in Ids : ExitZero(t)
    \/ \E t \in Ids : ResolveOutput(t)
    \/ \E t \in Ids : UnwrapStaging(t)
    \/ \E t \in Ids : HandleException(t)
    \/ \E t \in Ids : Finally(t)

SpecStages == Init /\ [][NextStages]_vars

\* One task; its downloader prints up to MaxLines lines of ErrorAlphabet on
\* stderr and exits with a code that is not 0.
NextErrors ==
    \/ add_download(1)
    \/ \E t \in Ids : Admit(t)
    \/ \E t \in Ids : MakeStaging(t)
    \/ \E t \in Ids : Launch(t, {"Connection lost"})
    \/ \E t \in Ids : ReadStderr(t, ErrorAlphabet)
    \/ \E t \in Ids : ExitNonZero(t)
    \/ \E t \in Ids : HandleException(t)
    \/ \E t \in Ids : Finally(t)

SpecErrors == Init /\ [][NextErrors]_vars

\* ------------------------------------------------------------ configuration
\* an exception that reaches the caller of a call
Raised(e) == <<"raised", e>>
\* ConfigManager.load_config: the keys of the file, no setting without a file
load_config(file) == IF IsSet(file) THEN Val(file) ELSE NoKeys
\* the keyword parameters of ConfigManager.update_global_settings
UpdateParams == {"output_template", "database_directory", "skip_downloaded",
                 "max_concurrent_downloads", "create_folder"}
\* lines 189-193: every passed setting that is not None replaces the stored one
Updated(stored, kwargs) ==
    [k \in ConfigKeys |-> IF k \in DOMAIN kwargs /\ IsSet(kwargs[k]) THEN kwargs[k]
                          ELSE stored[k]]
\* ConfigManager.save_config(written) on the file: open() fails (False, the
\* file is left as it was) or the document is written (True)
save_config(written, writable) ==
    IF writable THEN [file |-> Some(written), result |-> TRUE]
    ELSE [file |-> config, result |-> FALSE]

\* ConfigManager.update_global_settings(**kwargs); a keyword that is not a
\* parameter of the method is a TypeError of the call
update_global_settings(kwargs, writable) ==
    /\ ~Busy
    /\ IF DOMAIN kwargs \subseteq UpdateParams
       THEN LET saved == save_config(Updated(load_config(config), kwargs), writable)
            IN  /\ config' = saved.file
                /\ returned' = Some(saved.result)
       ELSE /\ returned' = Raised("TypeError")
            /\ UNCHANGED config
    /\ UNCHANGED <<request, eof, tasks, task, active_downloads, max_concurrent_downloads, pc,
                   stdout_lines, stderr_lines, exc, fs, now, returncode>>

\* DownloadManager.reload_config
reload_config ==
    /\ ~Busy
    /\ max_concurrent_downloads' = _load_config(config)
    /\ UNCHANGED <<request, returned, eof, config, tasks, task, active_downloads, pc, stdout_lines,
                   stderr_lines, exc, fs, now, returncode>>

\* routes.update_settings (POST /settings): the settings are written and,
\* when that succeeded, the manager reloads them; an empty template is not
\* passed on
update_settings(output_template, skip_downloaded, max_concurrent, writable) ==
    LET kwargs == [output_template |-> output_template,
                   skip_downloaded |-> Some(skip_downloaded),
                   max_concurrent_downloads |-> Some(max_concurrent)]
        saved == save_config(Updated(load_config(config), kwargs), writable)
    IN  /\ ~Busy
        /\ config' = saved.file
        /\ returned' = Some(saved.result)
        /\ max_concurrent_downloads' = IF saved.result THEN _load_config(saved.file)
                                       ELSE max_concurrent_downloads
        /\ UNCHANGED <<request, eof, tasks, task, active_downloads, pc, stdout_lines, stderr_lines,
                       exc, fs, now, returncode>>

\* what callers pass: integers at and beyond the ends of the range of line 149, two
\* templates, and the keyword sets of the settings form and of the tests
SettingValues ==
    {MinConcurrent - 1, MinConcurrent, DefaultMaxConcurrent + 1, MaxConcurrent + 1}
Templates == {"{title}", "{title} - {author}"}
TestKwargs ==
    [output_template |-> Some("{title} - {author}"), create_folder |-> Some(TRUE),
     group_by_author |-> Some(TRUE), max_concurrent_downloads |-> Some(3)]
SettingsCalls ==
    {TestKwargs}
        \cup {[output_template |-> Some(tpl), create_folder |-> Some(TRUE),
               max_concurrent_downloads |-> Some(3)] : tpl \in Templates}
        \cup {[max_concurrent_downloads |-> Some(n)] : n \in SettingValues}
        \cup {[output_template |-> None, create_folder |-> Some(b)] : b \in BOOLEAN}

\* ------------------------------------------------------------ download form
\* is_valid_url: the URL matches url_pattern, that is, it starts with http://
\* or https:// in any case, then has a dotted domain name, localhost or four
\* dotted numbers, and ends there, with "/" or with "/" or "?" followed by
\* characters that are not white space.
HttpSchemes == {"http", "https", "HTTPS"}
HostPatterns == {"www.storytel.com", "localhost", "192.168.1.10"}
PathPatterns == {"", "/", "/books/1", "?id=1"}
is_valid_url(url) ==
    /\ url.scheme \in HttpSchemes
    /\ url.host \in HostPatterns
    /\ url.rest \in PathPatterns

\* One line of the urls field: a text, which is a URL or nothing, with or
\* without white space and a carriage return around it
MaxBatch == 3
FormLine(text, padded) == [text |-> text, padded |-> padded]
FormUrls ==
    {Url("ftp", "www.storytel.com", "/books/1"), Url("HTTPS", "storytel", "/my book")}
FormLines ==
    {FormLine(None, TRUE), FormLine(Some(BookUrl), TRUE)}
        \cup {FormLine(Some(url), FALSE) : url \in FormUrls}
Forms == UNION {[1..n -> FormLines] : n \in 1..MaxBatch}

\* line 162: the stripped lines of urls that are not empty
UrlList(urls) ==
    LET filled == SelectSeq(urls, LAMBDA line : IsSet(line.text))
    IN  [i \in 1..Len(filled) |-> Val(filled[i].text)]

\* the i-th identifier that uuid4 has not given out yet
FreshId(i) ==
    CHOOSE t \in Ids : pc[t] = "idle" /\ Cardinality({u \in 1..t : pc[u] = "idle"}) = i

\* DownloadTask.to_dict of a task that add_download has just made
ToDict(task_id, url) == [task_id |-> task_id, url |-> url, status |-> DownloadTask.status]

\* lines 174-182 without the test of line 174: every URL is queued
AddDownloadAnyUrl(url_list) == url_list
\* lines 172-194: the URLs of the batch that reach add_download
AddDownloadUrls(url_list) == SelectSeq(url_list, is_valid_url)

\* routes.start_download (POST /api/download): each valid URL of the batch
\* becomes a task under a fresh identifier, each other URL a warning; the
\* loop has no suspension point, so the whole batch is one step
start_download(urls) ==
    /\ ~Busy
    /\ request' = Some(urls)
    /\ LET url_list == UrlList(urls)
           queued == AddDownloadUrls(url_list)
           skipped == SelectSeq(url_list, LAMBDA url : ~is_valid_url(url))
           ids == {FreshId(i) : i \in 1..Len(queued)}
       IN  IF url_list = <<>>
           THEN /\ returned' = Raised("HTTPException")
                /\ UNCHANGED <<tasks, task, pc>>
           ELSE /\ Len(queued) <= Cardinality({t \in Ids : pc[t] = "idle"})
                /\ tasks' = tasks \cup ids
                /\ task' = [t \in Ids |->
                               IF t \in ids
                               THEN LET i == CHOOSE j \in 1..Len(queued) : FreshId(j) = t
                                    IN  [DownloadTask EXCEPT !.url = queued[i]]
                               ELSE task[t]]
                /\ pc' = [t \in Ids |-> IF t \in ids THEN "gate" ELSE pc[t]]
                /\ returned' =
                       Some([tasks |-> [i \in 1..Len(queued) |-> ToDict(FreshId(i), queued[i])],
                             warnings |-> [i \in 1..Len(skipped) |->
                                              [url |-> skipped[i],
                                               warning |-> "Invalid URL format"]]])
    /\ UNCHANGED <<eof, config, active_downloads, max_concurrent_downloads, stdout_lines,
                   stderr_lines, exc, fs, now, returncode>>

\* Batches of URLs are posted one after another; no task is admitted.
NextBatch == \E urls \in Forms : start_download(urls)

\* the server has just started without a config file
InitBatch == Init /\ config = None
SpecBatch == InitBatch /\ [][NextBatch]_vars

\* The settings are written and reloaded in any order; no task is submitted.
NextConfig ==
    \/ \E kwargs \in SettingsCalls, writable \in BOOLEAN :
            update_global_settings(kwargs, writable)
    \/ reload_config
    \/ \E tpl \in {None} \cup {Some(x) : x \in Templates}, skip \in BOOLEAN,
          n \in SettingValues, writable \in BOOLEAN : update_settings(tpl, skip, n, writable)

SpecConfig == Init /\ [][NextConfig]_vars

\* One task is submitted; its downloader prints, writes and fails in every
\* way of the alphabets.
Next ==
    \/ add_download(1)
    \/ \E t \in Ids : Admit(t)
    \/ \E t \in Ids : MakeStaging(t)
    \/ \E t \in Ids : Launch(t, ExcMessages)
    \/ \E t \in Ids : ReadStdout(t, StdoutKinds)
    \/ \E t \in Ids : ReadStderr(t, StderrAlphabet)
    \/ \E t \in Ids : FlushStdout(t, StdoutKinds)
    \/ \E t \in Ids : FlushStderr(t, StderrAlphabet)
    \/ \E t \in Ids : MonitorRaises(t, ExcMessages)
    \/ \E t \in Ids : DownloaderWrites(t, Layouts)
    \/ \E t \in Ids : ExitZero(t)
    \/ \E t \in Ids : ExitNonZero(t)
    \/ \E t \in Ids : ResolveOutput(t)
    \/ \E t \in Ids : UnwrapStaging(t)
    \/ \E t \in Ids : ProbeMetadata(t, ProbeOutcomes)
    \/ \E t \in Ids : HandleException(t)
    \/ \E t \in Ids : Finally(t)
    \/ \E t \in Ids : cancel_task(t)
    \/ \E t \in Ids : remove_task(t)
    \/ clear_completed

Spec == Init /\ [][Next]_vars

\* the calls of cancel_task and remove_task that are not refused
Cancellable(t) == t \in tasks /\ task[t].status \in {"pending", "downloading"}
Removable(t) == t \in tasks /\ task[t].status \in REMOVABLE_STATUSES

\* NumTasks tasks are submitted; the downloaders print and write nothing, and
\* the callers make no call that is refused.
NextMany ==
    \/ \E t \in Ids : add_download(t)
    \/ \E t \in Ids : Admit(t)
    \/ \E t \in Ids : MakeStaging(t)
    \/ \E t \in Ids : Launch(t, {"Connection lost"})
    \/ \E t \in Ids : MonitorRaises(t, {"Connection lost"})
    \/ \E t \in Ids : ExitZero(t)
    \/ \E t \in Ids : ExitNonZero(t)
    \/ \E t \in Ids : ResolveOutput(t)
    \/ \E t \in Ids : UnwrapStaging(t)
    \/ \E t \in Ids : HandleException(t)
    \/ \E t \in Ids : Finally(t)
    \/ \E t \in Ids : Cancellable(t) /\ cancel_task(t)
    \/ \E t \in Ids : Removable(t) /\ remove_task(t)

\* there is no config file, or one that sets the least ceiling line 149 accepts
InitMany == Init /\ config \in {None, ConfigFile(Some(MinConcurrent))}
SpecMany == InitMany /\ [][NextMany]_vars

\* The event loop runs every coroutine that is ready (asyncio schedules its
\* callbacks first in, first out, and the sleep of the admission loop ends),
\* and every launched subprocess exits: the routine of a task is not
\* forever able to take its next step without taking it.
Routine(t) ==
    \/ Admit(t)
    \/ MakeStaging(t)
    \/ Launch(t, {"Connection lost"})
    \/ MonitorRaises(t, {"Connection lost"})
    \/ ExitZero(t)
    \/ ExitNonZero(t)
    \/ ResolveOutput(t)
    \/ UnwrapStaging(t)
    \/ HandleException(t)
    \/ Finally(t)
\* the config file sets max_concurrent_downloads to the least value line 149
\* accepts, so that every task but one waits at the gate
InitSerial == Init /\ config = ConfigFile(Some(MinConcurrent))
SpecManyFair == InitSerial /\ [][NextMany]_vars /\ \A t \in Ids : WF_vars(Routine(t))

\* NumTasks tasks are submitted and the callers call cancel_task, remove_task
\* and clear_completed with any id at any time; the downloaders print and
\* write nothing and exit with code 0, or the launch raises.
NextCalls ==
    \/ \E t \in Ids : add_download(t)
    \/ \E t \in Ids : Admit(t)
    \/ \E t \in Ids : MakeStaging(t)
    \/ \E t \in Ids : Launch(t, {"Connection lost"})
    \/ \E t \in Ids : ExitZero(t)
    \/ \E t \in Ids : ResolveOutput(t)
    \/ \E t \in Ids : UnwrapStaging(t)
    \/ \E t \in Ids : HandleException(t)
    \/ \E t \in Ids : Finally(t)
    \/ \E t \in Ids : cancel_task(t)
    \/ \E t \in Ids : remove_task(t)
    \/ clear_completed

\* the manager is constructed without a config file (line 143)
InitCalls == Init /\ config = None
SpecCalls == InitCalls /\ [][NextCalls]_vars

\* One task is submitted; its downloader prints lines that carry progress.
NextProgress ==
    \/ add_download(1)
    \/ \E t \in Ids : Admit(t)
    \/ \E t \in Ids : MakeStaging(t)
    \/ \E t \in Ids : Launch(t, {"Connection lost"})
    \/ \E t \in Ids : ReadStdout(t, ProgressKinds)
    \/ \E t \in Ids : ReadStderr(t, StderrAlphabet)
    \/ \E t \in Ids : ExitZero(t)
    \/ \E t \in Ids : ExitNonZero(t)
    \/ \E t \in Ids : ResolveOutput(t)
    \/ \E t \in Ids : UnwrapStaging(t)
    \/ \E t \in Ids : HandleException(t)
    \/ \E t \in Ids : Finally(t)

SpecProgress == Init /\ [][NextProgress]_vars

\* The downloads directory already holds entries of earlier runs when the
\* manager is constructed (mtime 0, written by no task of this run).
Old(parts, kind) == Entry(parts, kind, 0, 0)
\* "out.m4b" and every "out (i).m4b" the suffix search of lines 511-514 tries
Saturated ==
    {Old(<<OutName>>, "file")}
        \cup {Old(WithSuffix(<<OutName>>, i), "file") : i \in FirstSuffix..(SuffixCap - 1)}
SharedTrees ==
    { {},
      {Old(<<OutName>>, "file")},
      {Old(<<OutName>>, "file"), Old(WithSuffix(<<OutName>>, FirstSuffix), "file")},
      {Old(<<BookName>>, "dir"), Old(<<BookName, AudioName>>, "file")},
      {Old(<<BookName>>, "file")},
      Saturated,
      Saturated \cup {Old(CopyName(<<OutName>>), "file")} }

InitUnwrap ==
    /\ tasks = {}
    /\ task = [t \in Ids |-> DownloadTask]
    /\ active_downloads = 0
    /\ config = None
    /\ max_concurrent_downloads = _load_config(config)
    /\ pc = [t \in Ids |-> "idle"]
    /\ stdout_lines = [t \in Ids |-> <<>>]
    /\ stderr_lines = [t \in Ids |-> <<>>]
    /\ returncode = [t \in Ids |-> None]
    /\ exc = [t \in Ids |-> None]
    /\ fs \in SharedTrees
    /\ now = 1
    /\ returned = None
    /\ eof = [t \in Ids |-> {}]
    /\ request = None

\* One task is submitted into a downloads directory that is not empty; its
\* downloader announces the file it wrote and exits with code 0.
NextUnwrap ==
    \/ add_download(1)
    \/ \E t \in Ids : Admit(t)
    \/ \E t \in Ids : MakeStaging(t)
    \/ \E t \in Ids : Launch(t, {"Connection lost"})
    \/ \E t \in Ids : ReadStdout(t, {"saved"})
    \/ \E t \in Ids : DownloaderWrites(t, Layouts)
    \/ \E t \in Ids : ExitZero(t)
    \/ \E t \in Ids : ResolveOutput(t)
    \/ \E t \in Ids : UnwrapStaging(t)
    \/ \E t \in Ids : ProbeMetadata(t, FormatOutcomes)
    \/ \E t \in Ids : HandleException(t)
    \/ \E t \in Ids : Finally(t)

SpecUnwrap == InitUnwrap /\ [][NextUnwrap]_vars

\* The downloads directory already holds a directory "Book": empty, with the
\* file the downloader will write, also under its first suffixed name, or
\* with the cover.
MergeLayouts == {"dir", "pair"}
MergeTrees ==
    { {Old(<<BookName>>, "dir")},
      {Old(<<BookName>>, "dir"), Old(<<BookName, AudioName>>, "file")},
      {Old(<<BookName>>, "dir"), Old(<<BookName, AudioName>>, "file"),
       Old(WithSuffix(<<BookName, AudioName>>, FirstSuffix), "file")},
      {Old(<<BookName>>, "dir"), Old(<<BookName, AudioName>>, "file"),
       Old(<<BookName, CoverName>>, "file")} }
InitMerge ==
    /\ tasks = {}
    /\ task = [t \in Ids |-> DownloadTask]
    /\ active_downloads = 0
    /\ config = None
    /\ max_concurrent_downloads = _load_config(config)
    /\ pc = [t \in Ids |-> "idle"]
    /\ stdout_lines = [t \in Ids |-> <<>>]
    /\ stderr_lines = [t \in Ids |-> <<>>]
    /\ returncode = [t \in Ids |-> None]
    /\ exc = [t \in Ids |-> None]
    /\ fs \in MergeTrees
    /\ now = 1
    /\ returned = None
    /\ eof = [t \in Ids |-> {}]
    /\ request = None

\* One task whose downloader writes a directory "Book", may announce the
\* audio file in it, and exits with code 0.
NextMerge ==
    \/ add_download(1)
    \/ \E t \in Ids : Admit(t)
    \/ \E t \in Ids : MakeStaging(t)
    \/ \E t \in Ids : Launch(t, {"Connection lost"})
    \/ \E t \in Ids : ReadStdout(t, {"savedbook", "progress"})
    \/ \E t \in Ids : DownloaderWrites(t, MergeLayouts)
    \/ \E t \in Ids : ExitZero(t)
    \/ \E t \in Ids : ResolveOutput(t)
    \/ \E t \in Ids : UnwrapStaging(t)
    \/ \E t \in Ids : ProbeMetadata(t, FormatOutcomes)
    \/ \E t \in Ids : HandleException(t)
    \/ \E t \in Ids : Finally(t)

SpecMerge == InitMerge /\ [][NextMerge]_vars

\* The downloader announces no file, so that the output is searched by
\* timestamp.  It may keep the modification time of what it fetched: "early"
\* is an audio file dated at the first instant of the clock, "series" is that
\* file with a later audio file in a directory, a still later one beside it
\* and a cover as late.  The task starts at the first instant or after it.
LatestLayouts == {"file", "two", "early", "series"}
InitLatest ==
    /\ tasks = {}
    /\ task = [t \in Ids |-> DownloadTask]
    /\ active_downloads = 0
    /\ config = None
    /\ max_concurrent_downloads = _load_config(config)
    /\ pc = [t \in Ids |-> "idle"]
    /\ stdout_lines = [t \in Ids |-> <<>>]
    /\ stderr_lines = [t \in Ids |-> <<>>]
    /\ returncode = [t \in Ids |-> None]
    /\ exc = [t \in Ids |-> None]
    /\ fs \in {{}, {Old(<<OutName>>, "file")}}
    /\ now \in 1..(MaxClock - 1)
    /\ returned = None
    /\ eof = [t \in Ids |-> {}]
    /\ request = None
NextLatest ==
    \/ add_download(1)
    \/ \E t \in Ids : Admit(t)
    \/ \E t \in Ids : MakeStaging(t)
    \/ \E t \in Ids : Launch(t, {"Connection lost"})
    \/ \E t \in Ids : ReadStdout(t, {"progress"})
    \/ \E t \in Ids : DownloaderWrites(t, LatestLayouts)
    \/ \E t \in Ids : ExitZero(t)
    \/ \E t \in Ids : ResolveOutput(t)
    \/ \E t \in Ids : UnwrapStaging(t)
    \/ \E t \in Ids : ProbeMetadata(t, FormatOutcomes)
    \/ \E t \in Ids : HandleException(t)
    \/ \E t \in Ids : Finally(t)

SpecLatest == InitLatest /\ [][NextLatest]_vars

\* An output template as line 473 splits it, re.split(r"(\{[^}]+\})"): the
\* {...} matches and the literals between them, the empty literals left out.
\* Of a part the model keeps whether it is a {...} match (var), whether it
\* starts with "{" (brace; every match does, and so does a literal such as
\* "{x" whose brace is never closed) and whether it holds a character of
\* [<>:"/\|?*] or a control character (illegal).
MaxParts == 2
TemplatePart(var, brace, illegal) == [var |-> var, brace |-> brace, illegal |-> illegal]
TemplateParts == {p \in [var : BOOLEAN, brace : BOOLEAN, illegal : BOOLEAN] : p.var => p.brace}
OutputTemplates ==
    UNION {{tp \in [1..n -> TemplateParts] :
               \A i \in 1..(n - 1) : tp[i].var \/ tp[i + 1].var} : n \in 1..MaxParts}
TitleTemplate == <<TemplatePart(TRUE, TRUE, FALSE)>>
\* sanitize_template_literal, lines 49-51: the characters of [<>:"/\|?*]
\* become "_" and the control characters are dropped
sanitize_template_literal(literal) == [literal EXCEPT !.illegal = FALSE]
\* lines 474-477: a part is kept when it is empty or starts with "{"
SanitizedTemplate(template) ==
    [i \in DOMAIN template |->
        IF template[i].brace THEN template[i] ELSE sanitize_template_literal(template[i])]
\* an element of the argument list: a word, or the -o path as the directory
\* it is built on and the segments appended to it
Word(w) == [word |-> w, dir |-> <<>>, segs |-> <<>>]
OutputPath(dir, segs) == [word |-> "", dir |-> dir, segs |-> segs]
AuthorSegment == <<TemplatePart(TRUE, TRUE, FALSE)>>
ConfigPathWord == Word("<config_dir>/audiobook-dl.toml")
\* _load_config, lines 144-146: what the manager keeps of the file
Setting(file, key, default) ==
    IF IsSet(_read_config(file)[key]) THEN Val(_read_config(file)[key]) ELSE default
\* DownloadManager._build_download_command; output_format is "" when none
\* is asked for (None and "" take the same branch of line 496)
_build_download_command(url, output_template, combine, no_chapters, output_format, base_dir, file) ==
    LET template == IF output_template # None THEN Val(output_template)
                    ELSE Setting(file, "output_template", TitleTemplate)
        sanitized_template == SanitizedTemplate(template)
        effective_base_dir == IF Setting(file, "group_by_author", FALSE)
                              THEN <<AuthorSegment>> ELSE <<>>
        output_path == IF Setting(file, "create_folder", FALSE)
                       THEN effective_base_dir \o <<sanitized_template, sanitized_template>>
                       ELSE effective_base_dir \o <<sanitized_template>>
    IN  <<Word("audiobook-dl"), Word("--config"), ConfigPathWord,
          Word("-o"), OutputPath(base_dir, output_path)>>
        \o (IF combine THEN <<Word("--combine")>> ELSE <<>>)
        \o (IF no_chapters THEN <<Word("--no-chapters")>> ELSE <<>>)
        \o (IF output_format # "" THEN <<Word("--output-format"), Word(output_format)>>
            ELSE <<>>)
        \o <<Word(url)>>
\* the configuration files the command is built under: none, or one that
\* sets create_folder, group_by_author and maybe output_template
CommandConfigs ==
    {None} \cup {Some([NoKeys EXCEPT !["create_folder"] = Some(cf),
                                     !["group_by_author"] = Some(g),
                                     !["output_template"] = tpl]) :
                    cf \in BOOLEAN, g \in BOOLEAN,
                    tpl \in {None, Some(<<TemplatePart(FALSE, FALSE, TRUE)>>)}}
OutputFormats == {"", "mp3"}
SourceUrls == {"https://example.invalid/book"}
\* lines 222-229: the routine of task t builds the command for its staging
\* directory; the call and what it returns are kept, one call a behaviour
BuildCommand(t) ==
    /\ request = None
    /\ \E url \in SourceUrls,
         output_template \in {None} \cup {Some(tpl) : tpl \in OutputTemplates},
         combine \in BOOLEAN, no_chapters \in BOOLEAN, output_format \in OutputFormats :
          /\ request' = Some([url |-> url, output_template |-> output_template,
                              combine |-> combine, no_chapters |-> no_chapters,
                              output_format |-> output_format, base_dir |-> StagingDir(t)])
          /\ returned' = Some(_build_download_command(url, output_template, combine,
                                                      no_chapters, output_format,
                                                      StagingDir(t), config))
          /\ UNCHANGED <<eof, config, tasks, task, active_downloads, max_concurrent_downloads,
                         pc, stdout_lines, stderr_lines, exc, fs, now, returncode>>
InitCommand ==
    /\ tasks = {}
    /\ task = [t \in Ids |-> DownloadTask]
    /\ active_downloads = 0
    /\ config \in CommandConfigs
    /\ max_concurrent_downloads = _load_config(config)
    /\ pc = [t \in Ids |-> "idle"]
    /\ stdout_lines = [t \in Ids |-> <<>>]
    /\ stderr_lines = [t \in Ids |-> <<>>]
    /\ returncode = [t \in Ids |-> None]
    /\ exc = [t \in Ids |-> None]
    /\ fs = {}
    /\ now = 1
    /\ returned = None
    /\ eof = [t \in Ids |-> {}]
    /\ request = None
NextCommand == \E t \in Ids : BuildCommand(t)
SpecCommand == InitCommand /\ [][NextCommand]_vars

\* The settings form is posted while tasks are pending and downloading: it
\* asks for the least ceiling or for the default one, and the configuration
\* file may not be writable.  The manager starts without a file.
ReloadValues == {MinConcurrent, DefaultMaxConcurrent}
NextReload ==
    \/ \E t \in Ids : add_download(t)
    \/ \E t \in Ids : Admit(t)
    \/ \E t \in Ids : MakeStaging(t)
    \/ \E t \in Ids : Launch(t, {"Connection lost"})
    \/ \E t \in Ids : ExitNonZero(t)
    \/ \E t \in Ids : HandleException(t)
    \/ \E t \in Ids : Finally(t)
    \/ \E n \in ReloadValues, writable \in BOOLEAN : update_settings(None, FALSE, n, writable)
    \/ reload_config

SpecReload == InitBatch /\ [][NextReload]_vars /\ \A t \in Ids : WF_vars(Routine(t))

\* NumTasks tasks download side by side into an empty downloads directory:
\* each downloader writes one file into its staging directory, may announce
\* it with its full path or with its name alone, and exits with code 0.
SharedLines == {"saved", "savedname"}
NextShared ==
    \/ \E t \in Ids : add_download(t)
    \/ \E t \in Ids : Admit(t)
    \/ \E t \in Ids : MakeStaging(t)
    \/ \E t \in Ids : Launch(t, {"Connection lost"})
    \/ \E t \in Ids : ReadStdout(t, SharedLines)
    \/ \E t \in Ids : DownloaderWrites(t, {"file"})
    \/ \E t \in Ids : ExitZero(t)
    \/ \E t \in Ids : ResolveOutput(t)
    \/ \E t \in Ids : UnwrapStaging(t)
    \/ \E t \in Ids : ProbeMetadata(t, FormatOutcomes)
    \/ \E t \in Ids : HandleException(t)
    \/ \E t \in Ids : Finally(t)

SpecShared == InitBatch /\ [][NextShared]_vars

\* One task whose downloader announces the file it wrote and exits with code
\* 0, so that the file is probed; the probe gives any of Probes.
NextProbe ==
    \/ add_download(1)
    \/ \E t \in Ids : Admit(t)
    \/ \E t \in Ids : MakeStaging(t)
    \/ \E t \in Ids : Launch(t, {"Connection lost"})
    \/ \E t \in Ids : ReadStdout(t, {"saved"})
    \/ \E t \in Ids : DownloaderWrites(t, Layouts)
    \/ \E t \in Ids : ExitZero(t)
    \/ \E t \in Ids : ResolveOutput(t)
    \/ \E t \in Ids : UnwrapStaging(t)
    \/ \E t \in Ids : ProbeMetadata(t, Probes)
    \/ \E t \in Ids : HandleException(t)
    \/ \E t \in Ids : Finally(t)

SpecProbe == InitUnwrap /\ [][NextProbe]_vars

\* ------------------------------------------------------------ properties
Terminal == REMOVABLE_STATUSES
Downloading == {t \in Ids : task[t].status = "downloading"}
\* a task object the registry holds before and after the step
Kept(t) == t \in tasks /\ t \in tasks'

\* C1: the number of tasks whose status is downloading never exceeds
\* max_concurrent_downloads.
C1_CeilingRespected == Cardinality(Downloading) <= max_concurrent_downloads
\* as many tasks download as the ceiling allows while another waits at the gate
C1_Witness ==
    /\ Cardinality(Downloading) = max_concurrent_downloads
    /\ \E t \in tasks : pc[t] = "gate" /\ task[t].status = "pending"

LegalChanges ==
    { <<"pending", "downloading">>, <<"downloading", "completed">>,
      <<"downloading", "failed">>, <<"pending", "cancelled">>,
      <<"downloading", "cancelled">> }
\* C2: every change of a task's status is one of pending->downloading,
\* downloading->completed, downloading->failed, pending->cancelled,
\* downloading->cancelled.
C2_OnlyLegalChanges ==
    [][\A t \in Ids : Kept(t) /\ task'[t].status # task[t].status
            => <<task[t].status, task'[t].status>> \in LegalChanges]_vars

\* C3: once cancel_task has cancelled a task that still waits at the admission
\* gate, the monitoring routine changes nothing of the task record.
C3_CancelledPendingUntouched ==
    [][\A t \in Ids : Kept(t) /\ pc[t] = "gate" /\ task[t].status = "cancelled"
            => task'[t] = task[t]]_vars

\* C4: a task that is in one terminal status is never taken to a different
\* terminal status.
C4_OneTerminalStatus ==
    [][\A t \in Ids : Kept(t) /\ task[t].status \in Terminal /\ task'[t].status \in Terminal
            => task'[t].status = task[t].status]_vars

\* C5: completed_at is set if and only if the status is completed, failed or
\* cancelled.
C5_CompletedAtIffTerminal ==
    \A t \in tasks : IsSet(task[t].completed_at) <=> task[t].status \in Terminal

\* C6: a task whose status is failed has an error that is set and not empty.
C6_FailedHasError ==
    \A t \in tasks : task[t].status = "failed"
        => IsSet(task[t].error) /\ ~IsEmptyText(Val(task[t].error))

\* C7: when the subprocess has exited with code 0, the routine ends with the
\* task's status completed, whatever output resolution, staging
\* reconciliation or the metadata probe raised.
C7_ExitZeroEndsCompleted ==
    \A t \in Ids : pc[t] = "finally" /\ returncode[t] = Some(0)
        => task[t].status = "completed"

\* C8: whenever a task's status is failed its progress is 0.
C8_FailedProgressZero ==
    \A t \in tasks : task[t].status = "failed" => task[t].progress = 0

\* C9: after completion handling has relocated the single staging entry and
\* removed the staging directory, output_file (if set) names a file that
\* exists and is not a path inside the removed staging directory.
C9_OutputFileAtFinalLocation ==
    \A t \in Ids :
        ( /\ pc[t] \in {"probe", "finally"}
          /\ returncode[t] = Some(0)
          /\ IsSet(task[t].expected_output_dir)
          /\ ~Exists(fs, StagingDir(t))
          /\ IsSet(task[t].output_file) )
        => /\ IsFile(fs, Val(task[t].output_file).parts)
           /\ ~IsPrefix(StagingDir(t), Val(task[t].output_file).parts)

\* the entries of the shared downloads tree: those outside every staging directory
SharedEntries(f) == {e \in f : e.path[1].task = 0}
\* C10: no call of _unwrap_staging_dir removes or overwrites an entry that
\* was in the shared downloads tree before the call.
C10_SharedTreeKept ==
    [][\A t \in Ids : pc[t] = "unwrap" => SharedEntries(fs) \subseteq fs']_vars

\* C11: under fair scheduling every task that waits at the admission gate is
\* eventually admitted, and its routine eventually ends with the task in a
\* terminal status.
C11_EveryTaskAdmittedAndEnds ==
    \A t \in Ids :
        /\ (pc[t] = "gate") ~> (pc[t] = "admitted")
        /\ (pc[t] = "gate") ~> (pc[t] = "finally" /\ task[t].status \in Terminal)
\* a routine is about to end and free its slot while another task waits at
\* the gate with every slot taken
C11_Witness ==
    \E t, u \in Ids :
        /\ pc[t] = "finally" /\ task[t].status \in Terminal
        /\ pc[u] = "gate" /\ task[u].status = "pending"
        /\ active_downloads = max_concurrent_downloads

\* every submitted task is still in the registry
NothingRemoved == \A t \in Ids : pc[t] # "idle" => t \in tasks

\* C12: remove_task(id) deletes the task and returns true exactly when id is
\* in the registry with status completed, failed or cancelled; otherwise it
\* returns false and leaves the registry and every task unchanged.
C12_RemoveTask ==
    [][\A t \in Ids : remove_task(t) =>
        IF t \in tasks /\ task[t].status \in {"completed", "failed", "cancelled"}
        THEN /\ returned' = Some(TRUE)
             /\ tasks' = tasks \ {t}
             /\ \A u \in tasks' : task'[u] = task[u]
        ELSE /\ returned' = Some(FALSE)
             /\ tasks' = tasks
             /\ task' = task]_vars
\* the last call returned true and the registry is empty after a submission:
\* that call was a remove_task
C12_Witness ==
    /\ returned = Some(TRUE)
    /\ tasks = {}
    /\ \E t \in Ids : pc[t] # "idle"

\* C13: clear_completed removes exactly the tasks whose status is completed,
\* failed or cancelled and leaves every pending or downloading task in the
\* registry with all its fields unchanged.
C13_ClearCompleted ==
    [][clear_completed =>
        /\ tasks' = {t \in tasks : task[t].status \in {"pending", "downloading"}}
        /\ \A t \in tasks' : task'[t] = task[t]]_vars
\* a call that returns nothing was the last one, a task is gone and a task
\* that is pending or downloading is still there
C13_Witness ==
    /\ returned = None
    /\ ~NothingRemoved
    /\ \E t \in tasks : task[t].status \in {"pending", "downloading"}

\* C14: cancel_task(id) returns true exactly when id is in the registry with
\* status pending or downloading, and then sets the status to cancelled and
\* sets completed_at; otherwise it returns false and changes no field of any
\* task.
C14_CancelTask ==
    [][\A t \in Ids : cancel_task(t) =>
        IF t \in tasks /\ task[t].status \in {"pending", "downloading"}
        THEN /\ returned' = Some(TRUE)
             /\ task'[t].status = "cancelled"
             /\ IsSet(task'[t].completed_at)
             /\ \A u \in Ids \ {t} : task'[u] = task[u]
        ELSE /\ returned' = Some(FALSE)
             /\ task' = task
             /\ tasks' = tasks]_vars
\* the last call returned true, nothing was ever removed and a task is
\* cancelled: that call was a cancel_task
C14_Witness ==
    /\ returned = Some(TRUE)
    /\ NothingRemoved
    /\ \E t \in tasks : task[t].status = "cancelled"

\* C15: each task's progress is an integer in 0..100.
C15_ProgressInRange == \A t \in tasks : task[t].progress \in 0..100

\* C16: while a task is downloading, its progress never decreases from one
\* captured line to the next.
C16_ProgressNeverDecreases ==
    [][\A t \in Ids :
        Kept(t) /\ task[t].status = "downloading" /\ task'[t].status = "downloading"
            => task'[t].progress >= task[t].progress]_vars

\* line 333: _unwrap_staging_dir is about to be called for task t, and what
\* the call returns and leaves, for every order iterdir may list a staged
\* directory in
UnwrapCalled(t) ==
    /\ pc[t] = "unwrap"
    /\ IsSet(task[t].expected_output_dir)
    /\ Exists(fs, StagingDir(t))
UnwrapResults(t) ==
    {_unwrap_staging_dir(fs, StagingDir(t), task[t].output_file, order) :
        order \in Orders(StagedChildren(fs, StagingDir(t)))}
Staged(t) == IterDir(fs, StagingDir(t))
\* the routine is past the unwrap of a subprocess that exited with code 0
Unwound(t) == pc[t] \in {"probe", "finally"} /\ returncode[t] = Some(0)

\* C17: with zero or at least two top-level entries in the staging directory
\* _unwrap_staging_dir changes nothing on the filesystem and returns the given
\* output path and the staging directory as the search root.
C17_AmbiguousStagingUntouched ==
    \A t \in Ids : UnwrapCalled(t) /\ Cardinality(Staged(t)) # 1 =>
        \A u \in UnwrapResults(t) :
            /\ u.fs = fs
            /\ u.output_file = task[t].output_file
            /\ u.search_root = StagingDir(t)
            /\ ~u.raised
\* past the unwrap, the two staged entries are still in the staging directory
C17_Witness ==
    \E t \in Ids : Unwound(t) /\ Cardinality(Staged(t)) = 2

\* an output path that names a file at or below the staged entry e, read
\* as the program reads a path that is not absolute, from the downloads directory
PointsInto(output_file, e) ==
    /\ IsSet(output_file)
    /\ ~Val(output_file).toolong
    /\ IsPrefix(e, Val(output_file).parts)
    /\ IsFile(fs, Val(output_file).parts)
\* where the file the path names is once e has become dest
Relocated(output_file, e, dest) == dest \o Tail2(Val(output_file).parts, Len(e))

\* C18: when the staging directory has exactly one top-level entry and the
\* shared root has no entry of its name, _unwrap_staging_dir moves the entry
\* (a directory with what it holds) into the shared root under that name, the
\* staging directory is gone afterwards, and an output path that pointed to
\* the file inside staging is returned pointing to the relocated file, which
\* exists.
C18_SingleEntryMoved ==
    \A t \in Ids : \A e \in Staged(t) :
        (UnwrapCalled(t) /\ Staged(t) = {e} /\ ~Exists(fs, <<Last(e)>>)) =>
        \A u \in UnwrapResults(t) :
            /\ ~u.raised
            /\ u.fs = Rmtree(RenameTree(fs, e, <<Last(e)>>), StagingDir(t))
            /\ ~Exists(u.fs, StagingDir(t))
            /\ PointsInto(task[t].output_file, e) =>
                /\ IsSet(u.output_file)
                /\ Val(u.output_file).parts = Relocated(task[t].output_file, e, <<Last(e)>>)
                /\ IsFile(u.fs, Val(u.output_file).parts)

\* the first numeric suffix from FirstSuffix on that no entry next to dest has
FirstFreeSuffix(f, dest) ==
    LET taken == TakenSuffixes(f, dest)
    IN  SetMin({i \in FirstSuffix..(Cardinality(taken) + FirstSuffix) : i \notin taken})

\* C19: when the single staging entry is a file and a file of its name is at
\* the destination, the incoming file is moved under the name with the first
\* free suffix " (k)", k >= 2, before its extension; afterwards the file that
\* was there and the renamed file both exist at the destination, the staging
\* directory is gone, and the returned path refers to the renamed file.
C19_CollisionRenamed ==
    \A t \in Ids : \A e \in Staged(t) :
        (UnwrapCalled(t) /\ Staged(t) = {e} /\ IsFile(fs, e) /\ IsFile(fs, <<Last(e)>>)) =>
        LET renamed == WithSuffix(<<Last(e)>>, FirstFreeSuffix(fs, <<Last(e)>>))
        IN  \A u \in UnwrapResults(t) :
                /\ ~u.raised
                /\ u.fs = Rmtree(RenameTree(fs, e, renamed), StagingDir(t))
                /\ SharedEntries(fs) \subseteq u.fs
                /\ IsFile(u.fs, <<Last(e)>>) /\ IsFile(u.fs, renamed)
                /\ ~Exists(u.fs, StagingDir(t))
                /\ PointsInto(task[t].output_file, e) =>
                    /\ IsSet(u.output_file)
                    /\ Val(u.output_file).parts = renamed

\* C20: when the single staging entry is a directory and the destination has
\* an entry of that name that is not a directory, _unwrap_staging_dir moves
\* nothing and returns the given output path and the staging directory.
C20_FileInTheWayUntouched ==
    \A t \in Ids : \A e \in Staged(t) :
        ( /\ UnwrapCalled(t) /\ Staged(t) = {e} /\ IsDir(fs, e)
          /\ Exists(fs, <<Last(e)>>) /\ ~IsDir(fs, <<Last(e)>>) ) =>
        \A u \in UnwrapResults(t) :
            /\ u.fs = fs
            /\ u.output_file = task[t].output_file
            /\ u.search_root = StagingDir(t)
            /\ ~u.raised
\* past the unwrap, the staged directory is still in staging and the file of
\* its name is still at the destination
C20_Witness ==
    \E t \in Ids :
        /\ Unwound(t)
        /\ IsDir(fs, StagingDir(t) \o <<BookName>>)
        /\ IsFile(fs, StagingDir(t) \o <<BookName, AudioName>>)
        /\ IsFile(fs, <<BookName>>)

\* line 292: find_output_file_in_lines is about to be called for task t with
\* the captured lines, and the candidates it extracts, most recent line first
ResolveCalled(t) == pc[t] = "resolve"
CapturedLines(t) == stdout_lines[t] \o stderr_lines[t]
Candidates(t) == FoundPaths(CapturedLines(t), Len(CapturedLines(t)), <<>>)
\* a candidate exists on disk (a name the filesystem refuses names nothing)
CandidateExists(c) == ~c.toolong /\ Exists(fs, c.parts)

\* C21: find_output_file_in_lines returns either none or a path that exists:
\* the first of the candidates extracted from the lines, most recent line
\* first, that exists, and none when no extracted candidate exists.
C21_ResolverReturnsExisting ==
    \A t \in Ids : ResolveCalled(t) =>
        LET r == find_output_file_in_lines(CapturedLines(t), fs)
            c == Candidates(t)
            existing == {i \in 1..Len(c) : CandidateExists(c[i])}
        IN  /\ ~r.raised
            /\ IsSet(r.value) => Exists(fs, Val(r.value).parts)
            /\ existing = {} => r.value = None
            /\ existing # {} =>
                /\ IsSet(r.value)
                /\ Val(r.value).parts = c[SetMin(existing)].parts

\* the list has no two identical adjacent entries
NoAdjacentRepeat(lines_list) ==
    \A i \in 1..(Len(lines_list) - 1) : lines_list[i] # lines_list[i + 1]

\* C22: however the stream is split into chunks and whether or not it ends
\* with a line terminator, the list of lines read_process_stream captures
\* never holds two identical adjacent entries.
C22_NoAdjacentDuplicates ==
    \A t \in Ids : NoAdjacentRepeat(stdout_lines[t]) /\ NoAdjacentRepeat(stderr_lines[t])

\* the ceiling the file asks for: the stored integer brought into 1..10, or
\* the default when the file or the key is absent
AskedCeiling(file) ==
    LET stored == IF IsSet(file) THEN Val(file)["max_concurrent_downloads"] ELSE None
    IN  IF ~IsSet(stored) THEN DefaultMaxConcurrent
        ELSE IF Val(stored) < MinConcurrent THEN MinConcurrent
        ELSE IF Val(stored) > MaxConcurrent THEN MaxConcurrent
        ELSE Val(stored)
Reloads ==
    \/ reload_config
    \/ \E tpl \in {None} \cup {Some(x) : x \in Templates}, skip \in BOOLEAN,
          n \in SettingValues : update_settings(tpl, skip, n, TRUE)

\* C23: after construction and after every reload_config the ceiling
\* max_concurrent_downloads is an integer in 1..10: the configured integer
\* clamped to that range, or 2 when the key or the whole file is absent.
C23_CeilingClamped ==
    /\ max_concurrent_downloads = AskedCeiling(config)
    /\ [](max_concurrent_downloads \in MinConcurrent..MaxConcurrent)
    /\ [][Reloads => max_concurrent_downloads' = AskedCeiling(config')]_vars
\* the file asks for more than 10 and the manager has reloaded it
C23_Witness ==
    /\ IsSet(config)
    /\ Val(config)["max_concurrent_downloads"] = Some(MaxConcurrent + 1)
    /\ max_concurrent_downloads = MaxConcurrent

\* a step in which task t captures one more line on stdout, and that line
CapturesLine(t) ==
    /\ Len(stdout_lines'[t]) = Len(stdout_lines[t]) + 1
    /\ pc[t] = "monitor" /\ pc'[t] = "monitor"
Captured1(t) == Last(stdout_lines'[t])
\* the keyword families in their order of precedence: what a line of the
\* family makes of the current progress
Family(line) ==
    IF line.words \cap {"authenticating", "login"} # {} THEN "login"
    ELSE IF line.words \cap {"downloading", "download"} # {} THEN "download"
    ELSE IF line.words \cap {"combining", "merge", "concat"} # {} THEN "combine"
    ELSE IF line.words \cap {"chapter"} # {} THEN "chapter"
    ELSE IF line.words \cap {"saving", "writing"} # {} THEN "save"
    ELSE IF line.words \cap {"complete", "finished", "done"} # {} THEN "complete"
    ELSE "none"
StageProgress(family, current) ==
    CASE family = "login" -> 10
      [] family = "download" -> IF current < 20 THEN 20
                                ELSE IF current < 70
                                THEN (IF current + 5 > 70 THEN 70 ELSE current + 5)
                                ELSE current
      [] family = "combine" -> 75
      [] family = "chapter" -> 85
      [] family = "save" -> 90
      [] family = "complete" -> 95
      [] OTHER -> current
StageMessage(line) ==
    CASE Family(line) = "login" -> "Authenticating with service..."
      [] Family(line) = "download" -> "Downloading audiobook files..."
      [] Family(line) = "combine" -> "Combining audio files..."
      [] Family(line) = "chapter" -> "Adding chapter information..."
      [] Family(line) = "save" -> "Saving audiobook..."
      [] Family(line) = "complete" -> "Finalizing..."
      [] OTHER -> line.head
ScriptProgress == <<10, 20, 25, 30, 75, 85, 90, 95>>

\* C24: a line is classified by the first keyword family it matches, in the
\* order login -> 10, download -> 20 below 20, else 5 more up to 70, else
\* unchanged, combine -> 75, chapter -> 85, save -> 90, complete -> 95; and
\* from 0 the lines authenticating, downloading three times, combining,
\* chapter, saving, done give 10, 20, 25, 30, 75, 85, 90, 95.
C24_StagesClassified ==
    /\ [][\A t \in Ids : (CapturesLine(t) /\ ~IsSet(Captured1(t).pct)) =>
            task'[t].progress = StageProgress(Family(Captured1(t)), task[t].progress)]_vars
    /\ [](\A t \in Ids : \A n \in 1..Len(Script) :
            (pc[t] = "monitor" /\ stdout_lines[t] = ScriptLines(t, n)) =>
                task[t].progress = ScriptProgress[n])
\* all the stages were printed and the subprocess has exited
C24_Witness ==
    \E t \in Ids : /\ pc[t] = "resolve"
                   /\ stdout_lines[t] = ScriptLines(t, Len(Script))

\* C25: when a line holds an NN% pattern the progress returned by
\* parse_progress_line is that number, whatever keyword family the line
\* matches and whatever the current progress is; the message is the one the
\* keyword classification chose.
C25_PercentageOverrides ==
    [][\A t \in Ids : (CapturesLine(t) /\ IsSet(Captured1(t).pct)) =>
            /\ task'[t].progress = Val(Captured1(t).pct)
            /\ task'[t].message = StageMessage(Captured1(t))]_vars
\* "Downloading: 5%" was captured after a line that had set the progress to 75
C25_Witness ==
    \E t \in Ids : /\ pc[t] = "monitor"
                   /\ stdout_lines[t] = <<StageLine("combine"), LowLine>>
                   /\ task[t].progress = 5

\* line 366 is about to call format_error_messages(stderr_lines) for task t;
\* the lists it is checked on: the captured one, and that one with a blank
\* line before and after it
FormatCalled(t) == pc[t] = "monitor"
FormatInputs(t) ==
    {stderr_lines[t], <<BlankLine>> \o stderr_lines[t], stderr_lines[t] \o <<BlankLine>>}
\* the entries a line contributes, and those of a list in order
EntriesOf(line) ==
    IF line.frags = <<>> THEN << <<"", line.text>> >>
    ELSE [k \in 1..Len(line.frags) |-> <<"ERROR: ", line.frags[k]>>]
Reported(line) == line.text # "" /\ ~line.warning
RECURSIVE Entries(_)
Entries(lines) ==
    IF lines = <<>> THEN <<>> ELSE EntriesOf(Head(lines)) \o Entries(Tail(lines))

\* C26: format_error_messages depends on its list only; the result has no
\* entry from a blank line or from a line that begins with "WARNING:", one
\* "ERROR: <fragment>" entry per fragment after the first marker of a line
\* that contains "ERROR:" ("ERROR: disk full" gives that one entry), and it
\* is "Unknown error" when no entry remains, never the empty string.
C26_ErrorsFormatted ==
    \A t \in Ids : FormatCalled(t) =>
        \A lines \in FormatInputs(t) :
            LET r == format_error_messages(lines)
                kept == SelectSeq(lines, Reported)
            IN  /\ ~IsEmptyText(r)
                /\ r = IF kept = <<>> THEN << <<"", "Unknown error">> >> ELSE Entries(kept)
                /\ lines = <<ErrorLine>> => r = << <<"ERROR: ", "disk full">> >>
\* a failed task whose stderr held a warning and a line with two errors
C26_Witness ==
    \E t \in Ids :
        /\ pc[t] = "finally"
        /\ returncode[t] = Some(1)
        /\ stderr_lines[t] = <<WarningLine, TwoErrorsLine>>
        /\ task[t].error = Some(<< <<"ERROR: ", "no space">>, <<"ERROR: ", "aborted">> >>)

\* ------------------------------------------------------------------ C27
\* The fields a probe shows: title, author, narrator and year when a tag
\* that carries them is there, duration and size when the format section
\* has them.
Present(probe) ==
    {f \in {"title"} : "title" \in DOMAIN probe.tags}
        \cup {f \in {"author"} : {"artist", "album_artist"} \cap DOMAIN probe.tags # {}}
        \cup {f \in {"narrator"} : {"composer", "PERFORMER"} \cap DOMAIN probe.tags # {}}
        \cup {f \in {"year"} : {"date", "year"} \cap DOMAIN probe.tags # {}}
        \cup {f \in {"duration"} : IsSet(probe.duration)}
        \cup {f \in {"size"} : IsSet(probe.size)}

\* the task is about to probe its output file
ProbeCalled(t) == pc[t] = "probe"

Answered == IsSet(request) /\ Len(returned) = 1

\* C28: when a batch has been posted, the response lists one task per
\* syntactically valid URL of the batch and one warning per other URL, each
\* in the order of the batch; the listed tasks are distinct registry entries
\* with those URLs, the step that answers adds exactly as many registry
\* entries as it lists tasks, and no registry entry holds an invalid URL.
C28_ValidUrlsBecomeTasks ==
    /\ [](\A t \in tasks : is_valid_url(task[t].url))
    /\ [](Answered =>
            LET url_list == UrlList(Val(request))
                response == Val(returned)
                valid == SelectSeq(url_list, is_valid_url)
                invalid == SelectSeq(url_list, LAMBDA url : ~is_valid_url(url))
            IN  /\ [i \in DOMAIN response.tasks |-> response.tasks[i].url] = valid
                /\ [i \in DOMAIN response.warnings |-> response.warnings[i].url] = invalid
                /\ \A i \in DOMAIN response.tasks :
                       /\ response.tasks[i].task_id \in tasks
                       /\ task[response.tasks[i].task_id].url = valid[i]
                /\ \A i, j \in DOMAIN response.tasks :
                       response.tasks[i].task_id = response.tasks[j].task_id => i = j)
    /\ [][Len(returned') = 1 =>
            Cardinality(tasks') = Cardinality(tasks) + Len(Val(returned').tasks)]_vars

\* a batch of a valid URL, an invalid one and a valid one has been answered
\* with two tasks and one warning
C28_Witness ==
    /\ Answered
    /\ Len(UrlList(Val(request))) = 3
    /\ is_valid_url(UrlList(Val(request))[1])
    /\ ~is_valid_url(UrlList(Val(request))[2])
    /\ is_valid_url(UrlList(Val(request))[3])
    /\ Len(Val(returned).tasks) = 2
    /\ Len(Val(returned).warnings) = 1
    /\ Cardinality(tasks) = 2

\* ------------------------------------------------------------------ C29
\* the coroutine of the task is past line 242, where it calls
\* create_subprocess_exec
PastLaunch(t) ==
    pc[t] \in {"monitor", "resolve", "unwrap", "probe", "except", "finally", "done"}

\* the coroutine of the task calls create_subprocess_exec in this step
LaunchStep(t) == pc[t] = "launch" /\ pc'[t] # "launch"

\* C29: a task whose coroutine has called create_subprocess_exec never
\* comes back to that call, so the downloader is launched at most once per
\* task; a failed task is past the call, and no step launches a subprocess
\* for a failed task or brings it back before the call.
C29_LaunchedAtMostOnce ==
    /\ [](\A t \in Ids : task[t].status = "failed" => PastLaunch(t))
    /\ [][\A t \in Ids :
             /\ PastLaunch(t) => PastLaunch(t)' /\ ~LaunchStep(t)
             /\ LaunchStep(t) => PastLaunch(t)'
             /\ task[t].status = "failed" => ~LaunchStep(t) /\ pc'[t] # "launch"]_vars

\* a task whose subprocess was launched and exited with an error has failed
\* and its coroutine has ended
C29_Witness ==
    \E t \in Ids :
        /\ pc[t] = "done"
        /\ task[t].status = "failed"
        /\ task[t].message = "Download failed"

\* ------------------------------------------------------------------ C30
\* C30: a call of update_global_settings with output_template,
\* create_folder, group_by_author and max_concurrent_downloads on a writable
\* file returns true and load_config then gives each of the four keys with
\* the value written; whatever is passed, a setting that is not passed, or
\* is passed as none, keeps the value stored before the call.
C30_SettingsRoundTrip ==
    [][/\ update_global_settings(TestKwargs, TRUE) =>
            /\ returned' = Some(TRUE)
            /\ \A k \in DOMAIN TestKwargs : load_config(config')[k] = TestKwargs[k]
       /\ \A kwargs \in SettingsCalls :
            update_global_settings(kwargs, TRUE) =>
                \A k \in ConfigKeys :
                    (k \notin DOMAIN kwargs \/ kwargs[k] = None) =>
                        load_config(config')[k] = load_config(config)[k]]_vars

\* ------------------------------------------------------------------ C31
\* the coroutine of the task is between the increment of line 210 and the
\* decrement of line 387
HoldsSlot(t) ==
    pc[t] \in {"admitted", "launch", "monitor", "resolve", "unwrap", "probe", "except",
               "finally"}

\* C31: active_downloads counts the routines that have been admitted and
\* have not ended, so it is never negative and no routine that has ended,
\* however it ended, occupies a slot; the step that admits a task adds one,
\* the step that ends its routine takes one off, and no other step of the
\* routine changes the counter.
C31_SlotTakenAndReturnedOnce ==
    /\ [](active_downloads >= 0)
    /\ [](active_downloads = Cardinality({t \in Ids : HoldsSlot(t)}))
    /\ [][\A t \in Ids :
             /\ (pc[t] = "gate" /\ pc'[t] # "gate") =>
                    active_downloads' = active_downloads + 1
             /\ (pc[t] = "finally" /\ pc'[t] = "done") =>
                    active_downloads' = active_downloads - 1
             /\ (HoldsSlot(t) /\ HoldsSlot(t)' /\ pc'[t] # pc[t]) =>
                    active_downloads' = active_downloads]_vars

\* with one slot, a task has failed with an exception, its routine has ended
\* and a later task holds the slot
C31_Witness ==
    /\ max_concurrent_downloads = 1
    /\ \E t, u \in Ids :
          /\ pc[t] = "done"
          /\ task[t].status = "failed"
          /\ task[t].message = "Download failed with exception"
          /\ HoldsSlot(u)
          /\ IsSet(task[u].started_at)
          /\ IsSet(task[t].completed_at)
          /\ Val(task[t].completed_at) <= Val(task[u].started_at)

\* ------------------------------------------------------------------ C32
\* C32: whenever the event loop is between two steps, active_downloads is
\* the number of tasks of the registry whose status is downloading.
C32_CounterIsDownloadingTasks ==
    ~Busy => active_downloads = Cardinality({t \in tasks : task[t].status = "downloading"})

\* ------------------------------------------------------------------ C33
\* the entry at path p of tree f, with its path left out
What(f, p) == {[kind |-> x.kind, mtime |-> x.mtime, by |-> x.by] : x \in {y \in f : y.path = p}}

\* child c of the staged directory is in dest in tree g: under its own name
\* when that name was free in f, else under a numeric-suffixed name that was
\* free in f
MergedInto(f, g, c, dest) ==
    LET plain == dest \o <<Last(c)>>
    IN  IF ~Exists(f, plain) THEN What(g, plain) = What(f, c)
        ELSE \E i \in FirstSuffix..(SuffixCap - 1) :
                /\ ~Exists(f, WithSuffix(plain, i))
                /\ What(g, WithSuffix(plain, i)) = What(f, c)

\* C33: when the single staging entry is a directory and a directory of its
\* name is at the destination, _unwrap_staging_dir puts every top-level child
\* of the staged directory into the destination directory, under its own
\* name or a numeric-suffixed one when the name was taken; what was in the
\* destination before is still there unchanged; the staging directory is
\* gone; and an output path that named a file below a moved child is
\* returned naming that file at its new place.
C33_MergedIntoExistingDir ==
    \A t \in Ids : \A e \in Staged(t) :
        (UnwrapCalled(t) /\ Staged(t) = {e} /\ IsDir(fs, e) /\ IsDir(fs, <<Last(e)>>)) =>
        \A u \in UnwrapResults(t) :
            /\ ~u.raised
            /\ \A c \in IterDir(fs, e) : MergedInto(fs, u.fs, c, <<Last(e)>>)
            /\ SharedEntries(fs) \subseteq u.fs
            /\ ~Exists(u.fs, StagingDir(t))
            /\ \A c \in IterDir(fs, e) :
                  PointsInto(task[t].output_file, c) =>
                    /\ IsSet(u.output_file)
                    /\ IsPrefix(<<Last(e)>>, Val(u.output_file).parts)
                    /\ What(u.fs, Val(u.output_file).parts)
                          = What(fs, Val(task[t].output_file).parts)

\* C34: while a downloader runs, everything it wrote lies in the staging
\* directory of its own task; and the output file the resolver has just set
\* for a task (from its lines or by the timestamp search) neither lies in
\* another task's staging directory nor was written by another task.
Resolved(t) == pc[t] = "unwrap" /\ IsSet(task[t].output_file)
WrittenBy(f, p) == {e.by : e \in {d \in f : d.path = p}}
C34_OutputIsOwn ==
    \A t \in Ids :
        /\ pc[t] = "monitor" =>
              \A e \in fs : e.by = t => IsPrefix(StagingDir(t), e.path)
        /\ Resolved(t) =>
              \A u \in Ids \ {t} :
                  /\ ~IsPrefix(StagingDir(u), Val(task[t].output_file).parts)
                  /\ u \notin WrittenBy(fs, Val(task[t].output_file).parts)

\* C35: wherever the routine searches by timestamp, every result of
\* find_latest_audio_file is an audio file below the search directory whose
\* modification time is after min_mtime (the start of the task) and is the
\* greatest of such files; it is none exactly when there is no such file.
SearchCalled(t) ==
    /\ ResolveCalled(t)
    /\ IsSet(task[t].started_at) /\ IsSet(task[t].expected_output_dir)
    /\ IsDir(fs, Val(task[t].expected_output_dir))
    /\ ~IsSet(find_output_file_in_lines(stdout_lines[t] \o stderr_lines[t], fs).value)
AudioAfter(f, dir, min_mtime) ==
    {e \in f : /\ e.kind = "file" /\ IsPrefix(dir, e.path) /\ e.path # dir
               /\ Last(e.path).ext \in AUDIO_EXTENSIONS
               /\ e.mtime > min_mtime}
C35_LatestAfterStart ==
    \A t \in Ids : SearchCalled(t) =>
        LET min_mtime == Val(task[t].started_at)
            after == AudioAfter(fs, Val(task[t].expected_output_dir), min_mtime)
        IN  \A found \in find_latest_audio_file(fs, min_mtime, task[t].expected_output_dir) :
                /\ IsSet(found) <=> after # {}
                /\ IsSet(found) =>
                      \E e \in after : /\ Val(found) = normalize_path(e.path)
                                        /\ \A o \in after : o.mtime <= e.mtime
\* the search is made over a staging directory that holds an audio file not
\* newer than the start of the task and two newer ones of different times
C35_Witness ==
    \E t \in Ids :
        /\ SearchCalled(t)
        /\ \E e \in fs : /\ IsPrefix(StagingDir(t), e.path) /\ e.kind = "file"
                          /\ Last(e.path).ext \in AUDIO_EXTENSIONS
                          /\ e.mtime <= Val(task[t].started_at)
        /\ \E a, b \in AudioAfter(fs, StagingDir(t), Val(task[t].started_at)) :
              a.mtime < b.mtime

\* C36: a task's output_file, once set, is a path relative to the downloads
\* directory, whether it came from the output lines or from the timestamp
\* search and whether or not the unwrap of the staging directory rewrote it.
C36_OutputFileIsRelative ==
    \A t \in Ids : IsSet(task[t].output_file) => ~Val(task[t].output_file).abs

\* C37: once the routine is past the unwrap and the staging directory of the
\* task is removed, the task's expected_output_dir is cleared: no task in a
\* terminal status refers to a staging directory that is gone.
Reconciled(t) ==
    /\ pc[t] \in {"probe", "finally", "done"}
    /\ task[t].status \in {"completed", "failed", "cancelled"}
    /\ ~Exists(fs, StagingDir(t))
C37_StagingReferenceCleared ==
    \A t \in Ids : Reconciled(t) => task[t].expected_output_dir = None

\* C38: the argument list built for a task is the tool name, --config and
\* the configuration file, -o and a path on the task's staging directory
\* (an {author} segment exactly when group_by_author is on, then the
\* sanitized template, twice when create_folder is on), then --combine,
\* --no-chapters and --output-format <fmt>, each exactly when asked for, and
\* the URL last; in the sanitized template every {...} part is as given and
\* every literal part is free of illegal characters.
SanitizedAsClaimed(template, sanitized) ==
    /\ Len(sanitized) = Len(template)
    /\ \A i \in DOMAIN template :
          sanitized[i] = IF template[i].var THEN template[i]
                         ELSE [template[i] EXCEPT !.illegal = FALSE]
C38_CommandArgumentList ==
    (IsSet(request) /\ IsSet(returned)) =>
    LET call == Val(request)
        cmd == Val(returned)
        keys == _read_config(config)
        template == IF IsSet(call.output_template) THEN Val(call.output_template)
                    ELSE IF IsSet(keys["output_template"]) THEN Val(keys["output_template"])
                    ELSE TitleTemplate
        author == IF keys["group_by_author"] = Some(TRUE) THEN 1 ELSE 0
        copies == IF keys["create_folder"] = Some(TRUE) THEN 2 ELSE 1
        path == cmd[5]
        flags == SubSeq(cmd, 6, Len(cmd) - 1)
    IN  /\ Len(cmd) >= 6
        /\ SubSeq(cmd, 1, 4) = <<Word("audiobook-dl"), Word("--config"), ConfigPathWord,
                                 Word("-o")>>
        /\ path.dir = call.base_dir
        /\ Len(path.segs) = author + copies
        /\ author = 1 => path.segs[1] = AuthorSegment
        /\ \A i \in (author + 1)..Len(path.segs) :
              SanitizedAsClaimed(template, path.segs[i])
        /\ flags = (IF call.combine THEN <<Word("--combine")>> ELSE <<>>)
                   \o (IF call.no_chapters THEN <<Word("--no-chapters")>> ELSE <<>>)
                   \o (IF call.output_format # ""
                       THEN <<Word("--output-format"), Word(call.output_format)>> ELSE <<>>)
        /\ cmd[Len(cmd)] = Word(call.url)

\* C39: whenever started_at and completed_at of a task are both set,
\* completed_at is not earlier than started_at, however cancel_task is
\* interleaved with the admission and the exit of the subprocess.
C39_CompletedNotBeforeStarted ==
    \A t \in tasks :
        (IsSet(task[t].started_at) /\ IsSet(task[t].completed_at)) =>
            Val(task[t].completed_at) >= Val(task[t].started_at)

\* C40: with the settings changed while tasks are pending or downloading,
\* every admission is made under the ceiling in force, which is the one of
\* the configuration file as last loaded: no routine passes the gate while
\* active_downloads is at or above it; a step that changes the ceiling
\* leaves every routine, task record and the counter as they were; and a
\* task waiting at the gate is admitted in the end.
PassesGate(t) == pc[t] = "gate" /\ pc'[t] # "gate"
C40_AdmissionUnderNewCeiling ==
    /\ [](max_concurrent_downloads = _load_config(config))
    /\ [][\A t \in Ids : PassesGate(t) => active_downloads < _load_config(config)]_vars
    /\ [][max_concurrent_downloads' # max_concurrent_downloads =>
             /\ pc' = pc /\ task' = task /\ tasks' = tasks
             /\ active_downloads' = active_downloads]_vars
    /\ \A t \in Ids : (pc[t] = "gate") ~> (pc[t] # "gate")
\* the ceiling was lowered to one by the settings form, a task has ended
\* and the other one was admitted after that, and holds the only slot
C40_Witness ==
    /\ config # None /\ max_concurrent_downloads = MinConcurrent
    /\ \E t, u \in tasks :
          /\ pc[t] = "done" /\ HoldsSlot(u)
          /\ IsSet(task[t].completed_at) /\ IsSet(task[u].started_at)
          /\ Val(task[t].completed_at) <= Val(task[u].started_at)
          /\ active_downloads = 1

====
